---- MODULE Spec2Model ----
(***************************************************************************)
(* A state-machine model of the mcp-plugin-api boundary: the entry points  *)
(* generated by declare_tools!, declare_plugin_config!, declare_plugin_init!*)
(* and declare_config_schema!, the buffer hand-over of utils.rs, and the   *)
(* tool descriptors of tool.rs.                                            *)
(*                                                                         *)
(* Byte buffers are TLA+ strings: Len is the byte length, Head/Tail/SubSeq *)
(* address single bytes.  The character BadByte stands for the byte 0xFF,  *)
(* which occurs in no UTF-8 encoding.                                      *)
(***************************************************************************)
EXTENDS Integers, Sequences, FiniteSets, TLC

(***************************************************************************)
(* serde_json::Value and its text form.                                    *)
(***************************************************************************)
Null == [t |-> "null"]
Bool(b) == [t |-> "bool", b |-> b]
Num(n) == [t |-> "num", n |-> n]
Str(s) == [t |-> "str", s |-> s]
Arr(items) == [t |-> "arr", items |-> items]
Obj(members) == [t |-> "obj", members |-> members]

\* The empty serde_json::Map.
NoMembers == [k \in {} |-> Null]

\* Map::insert mutated: an insert under a key that is present is dropped.
MapInsert_keep_first(m, k, v) ==
    [x \in (DOMAIN m) \cup {k} |-> IF x \in DOMAIN m THEN m[x] ELSE v]

\* Map::insert: a later insert of the same key replaces the value.
MapInsert(m, k, v) == [x \in (DOMAIN m) \cup {k} |-> IF x = k THEN v ELSE m[x]]

\* The keys of the model's objects in byte order: serde_json's Map is a
\* BTreeMap, so an object is written (and iterated) in this order.
KeyOrder ==
    << "database_url", "description", "error", "inputSchema", "items",
       "limit", "max_connections", "message", "name", "product_id",
       "properties", "query", "required",
       "status", "title", "type" >>

SortedKeys(m) == SelectSeq(KeyOrder, LAMBDA k : k \in DOMAIN m)

Digits == <<"0", "1", "2", "3", "4", "5", "6", "7", "8", "9">>
IsDigit(c) == \E i \in 1..10 : Digits[i] = c
DigitVal(c) == (CHOOSE i \in 1..10 : Digits[i] = c) - 1

\* The length of the longest prefix of s that holds none of the bytes in stops.
Run(s, stops) ==
    LET at == {i \in 1..Len(s) : SubSeq(s, i, i) \in stops}
    IN  IF at = {} THEN Len(s)
        ELSE (CHOOSE i \in at : \A j \in at : i <= j) - 1

RECURSIVE Escape(_)
\* serde_json's string escaping of the two bytes the model's strings can hold
\* that need it; a run of other bytes is copied as it is.
Escape(s) ==
    IF s = "" THEN ""
    ELSE LET n == Run(s, {"\"", "\\"})
             c == Head(s)
         IN  IF n > 0 THEN SubSeq(s, 1, n) \o Escape(SubSeq(s, n + 1, Len(s)))
             ELSE (IF c = "\"" THEN "\\\"" ELSE "\\\\") \o Escape(Tail(s))

Quote(s) == "\"" \o Escape(s) \o "\""

RECURSIVE to_string(_), ItemsText(_), MembersText(_, _)
\* Value::to_string: the compact form, no white space.
to_string(v) ==
    CASE v.t = "null" -> "null"
      [] v.t = "bool" -> (IF v.b THEN "true" ELSE "false")
      [] v.t = "num"  -> ToString(v.n)
      [] v.t = "str"  -> Quote(v.s)
      [] v.t = "arr"  -> "[" \o ItemsText(v.items) \o "]"
      [] v.t = "obj"  -> "{" \o MembersText(v.members, SortedKeys(v.members)) \o "}"

ItemsText(items) ==
    IF items = <<>> THEN ""
    ELSE to_string(Head(items))
             \o (IF Len(items) > 1 THEN "," ELSE "")
             \o ItemsText(Tail(items))

MembersText(m, keys) ==
    IF keys = <<>> THEN ""
    ELSE Quote(Head(keys)) \o ":" \o to_string(m[Head(keys)])
             \o (IF Len(keys) > 1 THEN "," ELSE "")
             \o MembersText(m, Tail(keys))

(***************************************************************************)
(* serde_json::from_slice: a recursive-descent reader.  A result is        *)
(* [ok, v, rest] or [ok |-> FALSE, kind, rest]; rest is the unread input,  *)
(* from which the error's column is derived.  Where serde_json's texts hold *)
(* a back-quote the model writes an apostrophe.                            *)
(***************************************************************************)
POk(v, rest) == [ok |-> TRUE, v |-> v, rest |-> rest]
PErr(kind, rest) == [ok |-> FALSE, kind |-> kind, rest |-> rest]

RECURSIVE SkipWs(_)
SkipWs(s) == IF s # "" /\ Head(s) = " " THEN SkipWs(Tail(s)) ELSE s

HasPrefix(s, p) == Len(s) >= Len(p) /\ SubSeq(s, 1, Len(p)) = p
Drop(s, n) == SubSeq(s, n + 1, Len(s))

\* The byte 0xFF: valid in no UTF-8 text.
BadByte == "~"

RECURSIVE ParseChars(_, _)
\* The characters of a string literal after its opening quote.
ParseChars(s, acc) ==
    IF s = "" THEN PErr("EOF while parsing a string", s)
    ELSE LET c == Head(s)
             n == Run(s, {"\"", "\\", BadByte})
         IN  IF n > 0 THEN ParseChars(Drop(s, n), acc \o SubSeq(s, 1, n))
             ELSE IF c = "\"" THEN POk(acc, Tail(s))
             ELSE IF c = BadByte THEN PErr("invalid unicode code point", s)
             ELSE IF c = "\\"
                  THEN IF Len(s) < 2 THEN PErr("EOF while parsing a string", "")
                       ELSE IF Head(Tail(s)) \in {"\"", "\\"}
                            THEN ParseChars(Drop(s, 2), acc \o Head(Tail(s)))
                            ELSE PErr("invalid escape", Tail(s))
                  ELSE ParseChars(Tail(s), acc \o c)

RECURSIVE ParseDigits(_, _)
ParseDigits(s, acc) ==
    IF s # "" /\ IsDigit(Head(s))
    THEN ParseDigits(Tail(s), 10 * acc + DigitVal(Head(s)))
    ELSE POk(acc, s)

RECURSIVE ParseValue(_), ParseElements(_, _), ParseMembers(_, _)
ParseValue(input) ==
    LET s == SkipWs(input)
    IN  IF s = "" THEN PErr("EOF while parsing a value", s)
        ELSE LET c == Head(s)
             IN  CASE c = "n" ->
                        IF HasPrefix(s, "null") THEN POk(Null, Drop(s, 4))
                        ELSE PErr("expected ident", Tail(s))
                   [] c = "t" ->
                        IF HasPrefix(s, "true") THEN POk(Bool(TRUE), Drop(s, 4))
                        ELSE PErr("expected ident", Tail(s))
                   [] c = "f" ->
                        IF HasPrefix(s, "false") THEN POk(Bool(FALSE), Drop(s, 5))
                        ELSE PErr("expected ident", Tail(s))
                   [] c = "\"" ->
                        LET r == ParseChars(Tail(s), "")
                        IN  IF r.ok THEN POk(Str(r.v), r.rest) ELSE r
                   [] IsDigit(c) ->
                        LET r == ParseDigits(s, 0) IN POk(Num(r.v), r.rest)
                   [] c = "[" ->
                        LET s1 == SkipWs(Tail(s))
                        IN  IF s1 # "" /\ Head(s1) = "]" THEN POk(Arr(<<>>), Tail(s1))
                            ELSE ParseElements(s1, <<>>)
                   [] c = "{" ->
                        LET s1 == SkipWs(Tail(s))
                        IN  IF s1 # "" /\ Head(s1) = "}" THEN POk(Obj(NoMembers), Tail(s1))
                            ELSE ParseMembers(s1, NoMembers)
                   [] OTHER -> PErr("expected value", s)

\* The elements of an array after "[" (at least one is expected).
ParseElements(s, acc) ==
    LET r == ParseValue(s)
    IN  IF ~r.ok THEN r
        ELSE LET s1 == SkipWs(r.rest)
                 items == Append(acc, r.v)
             IN  IF s1 = "" THEN PErr("EOF while parsing a list", s1)
                 ELSE IF Head(s1) = "," THEN ParseElements(Tail(s1), items)
                 ELSE IF Head(s1) = "]" THEN POk(Arr(items), Tail(s1))
                 ELSE PErr("expected ',' or ']'", s1)

\* The members of an object after "{" (at least one is expected).
ParseMembers(input, acc) ==
    LET s == SkipWs(input)
    IN  IF s = "" THEN PErr("EOF while parsing an object", s)
        ELSE IF Head(s) # "\"" THEN PErr("key must be a string", s)
        ELSE LET k == ParseChars(Tail(s), "")
             IN  IF ~k.ok THEN k
                 ELSE LET s1 == SkipWs(k.rest)
                      IN  IF s1 = "" THEN PErr("EOF while parsing an object", s1)
                          ELSE IF Head(s1) # ":" THEN PErr("expected ':'", s1)
                          ELSE LET r == ParseValue(Tail(s1))
                               IN  IF ~r.ok THEN r
                                   ELSE LET s2 == SkipWs(r.rest)
                                            m == MapInsert(acc, k.v, r.v)
                                        IN  IF s2 = "" THEN PErr("EOF while parsing an object", s2)
                                            ELSE IF Head(s2) = "," THEN ParseMembers(Tail(s2), m)
                                            ELSE IF Head(s2) = "}" THEN POk(Obj(m), Tail(s2))
                                            ELSE PErr("expected ',' or '}'", s2)

\* from_slice mutated: input that is no JSON is taken for null.
from_slice_lenient(bytes) ==
    LET r == ParseValue(bytes)
    IN  IF r.ok /\ SkipWs(r.rest) = "" THEN [ok |-> TRUE, v |-> r.v]
        ELSE [ok |-> TRUE, v |-> Null]

\* from_slice::<Value>: one value, then only white space; Ok(v) or Err(e)
\* with e as serde_json displays it.
from_slice(bytes) ==
    LET r == ParseValue(bytes)
        col(rest, kind) ==
            IF rest = "" THEN Len(bytes) ELSE Len(bytes) - Len(rest) + 1
        err(kind, rest) ==
            [ok |-> FALSE,
             e |-> kind \o " at line 1 column " \o ToString(col(rest, kind))]
    IN  IF ~r.ok THEN err(r.kind, r.rest)
        ELSE IF SkipWs(r.rest) # "" THEN err("trailing characters", SkipWs(r.rest))
        ELSE [ok |-> TRUE, v |-> r.v]


(***************************************************************************)
(* tool.rs: parameter types, the builder, the descriptor.                  *)
(***************************************************************************)
ParamType == {"String", "Integer", "Number", "Boolean", "Object", "Array"}

\* to_json_type mutated: Integer is given the string of Number.
to_json_type_merged(param_type) ==
    CASE param_type = "String"  -> "string"
      [] param_type = "Integer" -> "number"
      [] param_type = "Number"  -> "number"
      [] param_type = "Boolean" -> "boolean"
      [] param_type = "Object"  -> "object"
      [] param_type = "Array"   -> "array"

to_json_type(param_type) ==
    CASE param_type = "String"  -> "string"
      [] param_type = "Integer" -> "integer"
      [] param_type = "Number"  -> "number"
      [] param_type = "Boolean" -> "boolean"
      [] param_type = "Object"  -> "object"
      [] param_type = "Array"   -> "array"

ToolParam(name, description, param_type, required) ==
    [name |-> name, description |-> description,
     param_type |-> param_type, required |-> required]

\* Tool::builder
builder(name, description) ==
    [name |-> name, description |-> description, params |-> <<>>]

Push(b, param) == [b EXCEPT !.params = Append(@, param)]

param_string(b, name, description, required) ==
    Push(b, ToolParam(name, description, "String", required))
param_i64(b, name, description, required) ==
    Push(b, ToolParam(name, description, "Integer", required))
param_f64(b, name, description, required) ==
    Push(b, ToolParam(name, description, "Number", required))
param_bool(b, name, description, required) ==
    Push(b, ToolParam(name, description, "Boolean", required))
param_object(b, name, description, required) ==
    Push(b, ToolParam(name, description, "Object", required))
param_array(b, name, description, required) ==
    Push(b, ToolParam(name, description, "Array", required))

\* ToolBuilder::handler: the finished Tool.
handler(b, h) ==
    [name |-> b.name, description |-> b.description,
     params |-> b.params, handler |-> h]

\* SchemaRequired mutated: every parameter is pushed, required or not.
SchemaRequired_all(params) == [i \in DOMAIN params |-> Str(params[i].name)]

RECURSIVE SchemaProperties(_, _), SchemaRequired(_)
\* The loop of to_json_schema: properties.insert per parameter ...
SchemaProperties(params, properties) ==
    IF params = <<>> THEN properties
    ELSE LET param == Head(params)
         IN  SchemaProperties(
                 Tail(params),
                 MapInsert(properties, param.name,
                           Obj("type" :> Str(to_json_type(param.param_type))
                               @@ "description" :> Str(param.description))))

\* ... and required.push for the parameters marked required.
SchemaRequired(params) ==
    IF params = <<>> THEN <<>>
    ELSE (IF Head(params).required THEN <<Str(Head(params).name)>> ELSE <<>>)
             \o SchemaRequired(Tail(params))

to_json_schema(tool) ==
    Obj("name" :> Str(tool.name)
        @@ "description" :> Str(tool.description)
        @@ "inputSchema" :>
             Obj("type" :> Str("object")
                 @@ "properties" :> Obj(SchemaProperties(tool.params, NoMembers))
                 @@ "required" :> Arr(SchemaRequired(tool.params))))

(***************************************************************************)
(* The configuration cell and the handlers.                                *)
(***************************************************************************)
\* once_cell::sync::OnceCell / std::sync::OnceLock contents.
None == [set |-> FALSE]
Some(v) == [set |-> TRUE, v |-> v]

\* The Deserialize of the configuration type of the crate's examples,
\* struct PluginConfig { database_url: String, max_connections: u32 }.
\* Unknown fields are skipped, a missing or ill-typed field is an error.
\* (The reader above yields no negative number, and the numerals of the
\* model's payloads lie far inside u32.)
DeserializeConfig(v) ==
    IF v.t = "obj"
    THEN LET m == v.members
         IN  IF "database_url" \notin DOMAIN m
                 THEN [ok |-> FALSE, e |-> "missing field 'database_url'"]
             ELSE IF m["database_url"].t # "str"
                 THEN [ok |-> FALSE, e |-> "invalid type"]
             ELSE IF "max_connections" \notin DOMAIN m
                 THEN [ok |-> FALSE, e |-> "missing field 'max_connections'"]
             ELSE IF m["max_connections"].t # "num"
                 THEN [ok |-> FALSE, e |-> "invalid type"]
             ELSE [ok |-> TRUE,
                   v |-> [database_url |-> m["database_url"].s,
                          max_connections |-> m["max_connections"].n]]
    ELSE IF v.t = "arr"
    THEN IF Len(v.items) < 2 THEN [ok |-> FALSE, e |-> "invalid length"]
         ELSE IF v.items[1].t # "str" \/ v.items[2].t # "num"
             THEN [ok |-> FALSE, e |-> "invalid type"]
         ELSE IF Len(v.items) > 2 THEN [ok |-> FALSE, e |-> "trailing characters"]
         ELSE [ok |-> TRUE,
               v |-> [database_url |-> v.items[1].s,
                      max_connections |-> v.items[2].n]]
    ELSE [ok |-> FALSE, e |-> "invalid type"]

\* config_from_slice mutated: bytes that do not give a configuration give
\* the default one.
config_from_slice_default(bytes) ==
    LET j == from_slice(bytes)
        c == IF j.ok THEN DeserializeConfig(j.v) ELSE j
    IN  IF c.ok THEN c
        ELSE [ok |-> TRUE, v |-> [database_url |-> "", max_connections |-> 0]]

\* serde_json::from_slice::<$config_type>
config_from_slice(bytes) ==
    LET j == from_slice(bytes)
    IN  IF j.ok THEN DeserializeConfig(j.v) ELSE j

\* try_get_config: the cell's content, None while unset.
try_get_config(cell) == cell

\* get_config mutated: while the cell is unset it gives a default
\* configuration instead of panicking.
get_config_or_default(cell) ==
    IF try_get_config(cell).set
    THEN [panic |-> FALSE, v |-> cell.v]
    ELSE [panic |-> FALSE, v |-> [database_url |-> "", max_connections |-> 0]]

\* get_config: .expect(..) panics while the cell is unset.
get_config(cell) ==
    IF try_get_config(cell).set
    THEN [panic |-> FALSE, v |-> cell.v]
    ELSE [panic |-> TRUE]

\* What a handler call comes to: Ok(v), Err(e) or a panic.  cfg records the
\* configuration the handler read, None when it read none.
HOk(v, cfg) == [kind |-> "Ok", v |-> v, cfg |-> cfg]
HErr(e) == [kind |-> "Err", e |-> e, cfg |-> None]
HPanic == [kind |-> "Panic", cfg |-> None]

\* Value indexing args["name"] followed by as_str(): the string under the
\* key, or none when args is no object, lacks the key or holds another type.
IndexStr(args, key) ==
    IF args.t = "obj" /\ key \in DOMAIN args.members /\ args.members[key].t = "str"
    THEN Some(args.members[key].s)
    ELSE None

\* fn handle_hello of the crate's example.
handle_hello(args) ==
    LET name == IndexStr(args, "name")
    IN  HOk(Obj("message" :>
                  Str("Hello, " \o (IF name.set THEN name.v ELSE "World") \o "!")),
            None)

\* fn my_handler of the declare_plugin_config! example: reads the
\* configuration, then answers.
my_handler(args, cell) ==
    LET config == get_config(cell)
    IN  IF config.panic THEN HPanic
        ELSE HOk(Obj("status" :> Str("ok")), Some(config.v))

\* A handler that checks whether the configuration is available, through
\* try_get_config.
probe_handler(args, cell) ==
    LET config == try_get_config(cell)
    IN  IF config.set THEN HOk(Obj("status" :> Str("ok")), Some(config.v))
        ELSE HOk(Obj("status" :> Str("unconfigured")), None)

\* A ToolHandler is any fn(&Value) -> Result<Value, String>; besides the two
\* above the model has the handlers that return one fixed result.
Returns(result) == [fn |-> "returns", result |-> result]
HandleHello == [fn |-> "handle_hello"]
MyHandler == [fn |-> "my_handler"]
ProbeHandler == [fn |-> "probe_handler"]

\* (tool.handler)(&args)
CallHandler(h, args, cell) ==
    CASE h.fn = "handle_hello" -> handle_hello(args)
      [] h.fn = "my_handler"   -> my_handler(args, cell)
      [] h.fn = "probe_handler" -> probe_handler(args, cell)
      [] h.fn = "returns"      -> h.result

(***************************************************************************)
(* utils.rs: handing a result to the host, and taking it back.             *)
(***************************************************************************)
NULL == 0
\* The address of an empty Vec (NonNull::dangling): no heap block.
Dangling == -1

NoBlock == [live |-> FALSE, cap |-> 0, bytes |-> ""]
\* The allocator mutated: it hands out any address, also one in use (as a
\* result buffer shared between calls would be).
FreeAddrs_any(h) == DOMAIN h

FreeAddrs(h) == {a \in DOMAIN h : ~h[a].live}

\* into_bytes + shrink_to_fit: a block of exactly the content's size at a.
VecAlloc(h, a, bytes) ==
    IF bytes = "" THEN h
    ELSE [h EXCEPT ![a] = [live |-> TRUE, cap |-> Len(bytes), bytes |-> bytes]]

\* Dropping a Vec with this pointer and capacity.
VecDrop(h, ptr, capacity) ==
    IF capacity = 0 THEN h ELSE [h EXCEPT ![ptr] = NoBlock]

\* prepare_result mutated: the Vec is dropped on return (no ManuallyDrop).
prepare_result_dropped(h, a, data) ==
    LET bytes == to_string(data)
        ptr == IF bytes = "" THEN Dangling ELSE a
    IN  [heap |-> VecDrop(VecAlloc(h, a, bytes), ptr, Len(bytes)),
         result_len |-> Len(bytes), result_buf |-> ptr]

\* prepare_result mutated: no shrink_to_fit, the Vec keeps one byte of
\* spare capacity.
prepare_result_unshrunk(h, a, data) ==
    LET bytes == to_string(data)
    IN  [heap |-> [h EXCEPT ![a] = [live |-> TRUE, cap |-> Len(bytes) + 1,
                                    bytes |-> bytes]],
         result_len |-> Len(bytes) + 1,
         result_buf |-> a]

\* prepare_result: the out-parameters written and the heap left behind; the
\* Vec goes into ManuallyDrop, so the block stays allocated.
prepare_result(h, a, data) ==
    LET bytes == to_string(data)
    IN  [heap |-> VecAlloc(h, a, bytes),
         result_len |-> Len(bytes),
         result_buf |-> IF bytes = "" THEN Dangling ELSE a]

\* return_success mutated: the code follows the shape of the value, 1 for
\* an object with an "error" key.
return_success_by_shape(h, a, data) ==
    [code |-> IF data.t = "obj" /\ "error" \in DOMAIN data.members THEN 1 ELSE 0,
     out |-> prepare_result(h, a, data)]

\* return_success mutated: the value goes out wrapped in an envelope.
return_success_enveloped(h, a, data) ==
    [code |-> 0, out |-> prepare_result(h, a, Obj("message" :> data))]

return_success(h, a, data) ==
    [code |-> 0, out |-> prepare_result(h, a, data)]

\* return_error mutated: the message goes out as a bare JSON string.
return_error_bare(h, a, error) ==
    [code |-> 1, out |-> prepare_result(h, a, Str(error))]

return_error(h, a, error) ==
    [code |-> 1, out |-> prepare_result(h, a, Obj("error" :> Str(error)))]

(***************************************************************************)
(* The plugin of the model: the tools handed to declare_tools!, the host's *)
(* threads and the heap.                                                   *)
(***************************************************************************)
\* Number of host threads, heap blocks the allocator can hold at a time.
NThreads == 2
MaxBufs == 2

Threads == 1..NThreads
\* How many completed configure calls the history keeps.
MaxCfgLog == 2

\* The tool list of the plugin under check: the crate's hello tool, a tool
\* that reads the configuration, and a tool whose handler fails.
HelloTool ==
    handler(param_string(builder("hello", "Say hello"),
                         "name", "Name to greet", FALSE),
            HandleHello)
StatusTool == handler(builder("status", "Report status"), MyHandler)
FailTool ==
    handler(param_i64(builder("get_product", "Get a product"),
                      "product_id", "The product ID", TRUE),
            [fn |-> "returns",
             result |-> [kind |-> "Err", e |-> "Product not found", cfg |-> [set |-> FALSE]]])

ToolsMain == <<HelloTool, StatusTool>>
ToolsAll == <<HelloTool, StatusTool, FailTool>>

VARIABLES
    declared,        \* the tool expressions of declare_tools!, in order
    TOOLS,           \* static TOOLS: OnceLock<HashMap<String, Tool>>
    building,        \* per thread: the closure's local map while it builds
    PLUGIN_CONFIG,   \* static __PLUGIN_CONFIG: OnceCell<$config_type>
    DB_POOL,         \* static DB_POOL of the init example: set or not
    heap,            \* the plugin allocator's blocks, by address
    held,            \* (address, capacity) pairs the host holds, not yet freed
    pc,              \* per thread: where it stands inside the plugin
    frame,           \* per thread: the locals of the call in flight
    last,            \* the call that completed last, as the host saw it
    proc,            \* "running", or how the process ended
    builds,          \* how often the build closure has run to completion
    cfgLog           \* history: the first configure calls to complete, and
                     \* what the first list_tools call returned

vars == <<declared, TOOLS, building, PLUGIN_CONFIG, DB_POOL, heap, held,
          pc, frame, last, proc, builds, cfgLog>>

EmptyMap == [k \in {} |-> Null]
NoFrame ==
    [op |-> "none", in |-> <<>>, name |-> "", args |-> Null, config |-> None]
NoBuild == [map |-> EmptyMap, next |-> 0]
NoCode == -1
NoCall ==
    [op |-> "none", t |-> 0, in |-> <<>>, returned |-> FALSE, code |-> NoCode,
     written |-> FALSE, buf |-> NULL, len |-> 0, body |-> "", invoked |-> <<>>,
     block |-> FALSE]

\* The state after the module is loaded: a plugin declaring these tools, an
\* allocator with room for nbufs blocks; logging switches the history on.
InitWith(tools, nbufs, logging) ==
    /\ declared = tools
    /\ TOOLS = [state |-> "uninit", value |-> [tools |-> EmptyMap, order |-> <<>>]]
    /\ building = [t \in Threads |-> NoBuild]
    /\ PLUGIN_CONFIG = None
    /\ DB_POOL = FALSE
    /\ heap = [a \in 1..nbufs |-> NoBlock]
    /\ held = {}
    /\ pc = [t \in Threads |-> "idle"]
    /\ frame = [t \in Threads |-> NoFrame]
    /\ last = NoCall
    /\ proc = "running"
    /\ builds = 0
    /\ cfgLog = [on |-> logging, calls |-> <<>>, listed |-> None]

(***************************************************************************)
(* How a call ends.                                                        *)
(***************************************************************************)
\* What an entry point comes to: a return, with or without the two
\* out-parameters written, or a panic that reaches the extern "C" frame.
Returned(ret, invoked) ==
    [kind |-> "return", code |-> ret.code, written |-> TRUE,
     out |-> ret.out, invoked |-> invoked]
ReturnedCode(code, h, invoked) ==
    [kind |-> "return", code |-> code, written |-> FALSE,
     out |-> [heap |-> h, result_len |-> 0, result_buf |-> NULL],
     invoked |-> invoked]
Panicked(h, invoked) ==
    [kind |-> "panic", code |-> NoCode, written |-> FALSE,
     out |-> [heap |-> h, result_len |-> 0, result_buf |-> NULL],
     invoked |-> invoked]

\* A panic in an extern "C" function has no handler in this crate: the build
\* either aborts the process at the boundary or lets the unwind run into the
\* host's frames.
PanicOutcomes == {"aborted", "unwound"}

\* Thread t's call ends as oc says.
Complete(t, op, in, oc) ==
    /\ heap' = oc.out.heap
    /\ cfgLog' = IF cfgLog.on /\ op = "configure" /\ Len(cfgLog.calls) < MaxCfgLog
                 THEN [cfgLog EXCEPT !.calls =
                         Append(@, [t |-> t, payload |-> in[1], code |-> oc.code,
                                    racing |-> \E u \in Threads \ {t} :
                                                  pc[u] = "configure_set"])]
                 ELSE IF /\ cfgLog.on /\ op = "list_tools" /\ ~cfgLog.listed.set
                         /\ oc.kind = "return" /\ oc.written
                 THEN [cfgLog EXCEPT !.listed =
                         Some(oc.out.heap[oc.out.result_buf].bytes)]
                 ELSE cfgLog
    /\ frame' = [frame EXCEPT ![t] = NoFrame]
    /\ IF oc.kind = "panic"
       THEN /\ pc' = [pc EXCEPT ![t] = "panicked"]
            /\ proc' \in PanicOutcomes
            /\ held' = held
            /\ last' = [op |-> op, t |-> t, in |-> in, returned |-> FALSE,
                        code |-> NoCode, written |-> FALSE, buf |-> NULL,
                        len |-> 0, body |-> "", invoked |-> oc.invoked,
                        block |-> FALSE]
       ELSE /\ pc' = [pc EXCEPT ![t] = "idle"]
            /\ proc' = proc
            /\ held' = IF oc.written
                       THEN held \cup {<<oc.out.result_buf, oc.out.result_len>>}
                       ELSE held
            /\ last' = [op |-> op, t |-> t, in |-> in, returned |-> TRUE,
                        code |-> oc.code, written |-> oc.written,
                        buf |-> oc.out.result_buf, len |-> oc.out.result_len,
                        body |-> IF oc.written /\ oc.out.result_len > 0
                                 THEN oc.out.heap[oc.out.result_buf].bytes
                                 ELSE "",
                        invoked |-> oc.invoked, block |-> FALSE]

(***************************************************************************)
(* declare_tools!: the registry and the two generated entry points.        *)
(***************************************************************************)
HasBadByte(s) == \E i \in 1..Len(s) : SubSeq(s, i, i) = BadByte

\* CStr::from_ptr(tool_name).to_str(): the bytes as a str, unless they are
\* no UTF-8.
to_str(bytes) ==
    IF HasBadByte(bytes) THEN [ok |-> FALSE] ELSE [ok |-> TRUE, v |-> bytes]

\* OnceLock::get: the value once initialization has completed.
OnceLock_get(cell) == IF cell.state = "done" THEN Some(cell.value) ELSE None

\* OnceLock mutated: a caller runs the closure whenever no value is set yet,
\* also while another caller is running it.
OnceLock_may_init_racy(cell) == cell.state # "done"

\* OnceLock mutated: every caller waits for another one to run the closure.
OnceLock_may_init_never(cell) == FALSE

\* get_or_init lets a caller run the closure only while nobody has started.
OnceLock_may_init(cell) == cell.state = "uninit"

\* The orders in which a HashMap with these keys may iterate.
Orders(keys) ==
    {o \in [1..Cardinality(keys) -> keys] :
        \A i, j \in 1..Cardinality(keys) : o[i] = o[j] => i = j}

\* Does an argument value fit the schema the tool declares: an object that
\* has every required parameter, each parameter present being of its type?
FitsType(v, param_type) ==
    CASE param_type = "String"  -> v.t = "str"
      [] param_type = "Integer" -> v.t = "num"
      [] param_type = "Number"  -> v.t = "num"
      [] param_type = "Boolean" -> v.t = "bool"
      [] param_type = "Object"  -> v.t = "obj"
      [] param_type = "Array"   -> v.t = "arr"
Conforms(tool, args) ==
    /\ args.t = "obj"
    /\ \A i \in DOMAIN tool.params :
          IF tool.params[i].name \in DOMAIN args.members
          THEN FitsType(args.members[tool.params[i].name], tool.params[i].param_type)
          ELSE ~tool.params[i].required

\* Dispatch mutated: arguments that do not fit the tool's schema are turned
\* down before the handler runs.
Dispatch_validating(h, a, tools, name, args, cell) ==
    IF name \in DOMAIN tools.tools
    THEN LET tool == tools.tools[name]
             r == CallHandler(tool.handler, args, cell)
             invoked == <<[tool |-> tool.name, handler |-> tool.handler,
                           args |-> args, result |-> r]>>
         IN  IF ~Conforms(tool, args)
             THEN Returned(return_error(h, a, "Invalid arguments"), <<>>)
             ELSE CASE r.kind = "Ok"    -> Returned(return_success(h, a, r.v), invoked)
                    [] r.kind = "Err"   -> Returned(return_error(h, a, r.e), invoked)
                    [] r.kind = "Panic" -> Panicked(h, invoked)
    ELSE Returned(return_error(h, a, "Unknown tool: " \o name), <<>>)

\* Dispatch mutated: a lookup miss returns 1 at once, writing no result.
Dispatch_miss_silent(h, a, tools, name, args, cell) ==
    IF name \in DOMAIN tools.tools
    THEN LET tool == tools.tools[name]
             r == CallHandler(tool.handler, args, cell)
             invoked == <<[tool |-> tool.name, handler |-> tool.handler,
                           args |-> args, result |-> r]>>
         IN  CASE r.kind = "Ok"    -> Returned(return_success(h, a, r.v), invoked)
               [] r.kind = "Err"   -> Returned(return_error(h, a, r.e), invoked)
               [] r.kind = "Panic" -> Panicked(h, invoked)
    ELSE ReturnedCode(1, h, <<>>)

\* Dispatch mutated: a lookup miss is reported through return_success.
Dispatch_miss_ok(h, a, tools, name, args, cell) ==
    IF name \in DOMAIN tools.tools
    THEN LET tool == tools.tools[name]
             r == CallHandler(tool.handler, args, cell)
             invoked == <<[tool |-> tool.name, handler |-> tool.handler,
                           args |-> args, result |-> r]>>
         IN  CASE r.kind = "Ok"    -> Returned(return_success(h, a, r.v), invoked)
               [] r.kind = "Err"   -> Returned(return_error(h, a, r.e), invoked)
               [] r.kind = "Panic" -> Panicked(h, invoked)
    ELSE Returned(return_success(h, a, Obj("error" :> Str("Unknown tool: " \o name))),
                  <<>>)

\* tools.get(name), then the handler and the result (macros.rs, the final match).
Dispatch(h, a, tools, name, args, cell) ==
    IF name \in DOMAIN tools.tools
    THEN LET tool == tools.tools[name]
             r == CallHandler(tool.handler, args, cell)
             invoked == <<[tool |-> tool.name, handler |-> tool.handler,
                           args |-> args, result |-> r]>>
         IN  CASE r.kind = "Ok"    -> Returned(return_success(h, a, r.v), invoked)
               [] r.kind = "Err"   -> Returned(return_error(h, a, r.e), invoked)
               [] r.kind = "Panic" -> Panicked(h, invoked)
    ELSE Returned(return_error(h, a, "Unknown tool: " \o name), <<>>)

\* generated_execute_tool mutated: the arguments are parsed before the name
\* is decoded.
generated_execute_tool_args_first(t, tool_name, args_json) ==
    /\ proc = "running" /\ pc[t] = "idle"
    /\ \E a \in FreeAddrs(heap) :
         LET name == to_str(tool_name)
             args == from_slice(args_json)
             in == <<tool_name, args_json>>
             tools == OnceLock_get(TOOLS)
         IN  IF ~args.ok
             THEN Complete(t, "execute_tool", in,
                      Returned(return_error(heap, a, "Invalid JSON arguments: " \o args.e), <<>>))
             ELSE IF ~name.ok
             THEN Complete(t, "execute_tool", in,
                      Returned(return_error(heap, a, "Invalid tool name encoding"), <<>>))
             ELSE IF tools.set
             THEN Complete(t, "execute_tool", in,
                      Dispatch(heap, a, tools.v, name.v, args.v, PLUGIN_CONFIG))
             ELSE /\ pc' = [pc EXCEPT ![t] = "get_tools"]
                  /\ frame' = [frame EXCEPT ![t] =
                                 [op |-> "execute_tool", in |-> in,
                                  name |-> name.v, args |-> args.v,
                                  config |-> None]]
                  /\ UNCHANGED <<heap, held, last, proc, cfgLog>>
    /\ UNCHANGED <<declared, TOOLS, building, PLUGIN_CONFIG, DB_POOL, builds>>

\* generated_execute_tool up to get_tools(); when the registry is built the
\* call runs to its end in this step, otherwise the thread goes on in
\* get_tools.
generated_execute_tool(t, tool_name, args_json) ==
    /\ proc = "running" /\ pc[t] = "idle"
    /\ \E a \in FreeAddrs(heap) :
         LET name == to_str(tool_name)
             args == from_slice(args_json)
             in == <<tool_name, args_json>>
             tools == OnceLock_get(TOOLS)
         IN  IF ~name.ok
             THEN Complete(t, "execute_tool", in,
                      Returned(return_error(heap, a, "Invalid tool name encoding"), <<>>))
             ELSE IF ~args.ok
             THEN Complete(t, "execute_tool", in,
                      Returned(return_error(heap, a, "Invalid JSON arguments: " \o args.e), <<>>))
             ELSE IF tools.set
             THEN Complete(t, "execute_tool", in,
                      Dispatch(heap, a, tools.v, name.v, args.v, PLUGIN_CONFIG))
             ELSE /\ pc' = [pc EXCEPT ![t] = "get_tools"]
                  /\ frame' = [frame EXCEPT ![t] =
                                 [op |-> "execute_tool", in |-> in,
                                  name |-> name.v, args |-> args.v,
                                  config |-> None]]
                  /\ UNCHANGED <<heap, held, last, proc, cfgLog>>
    /\ UNCHANGED <<declared, TOOLS, building, PLUGIN_CONFIG, DB_POOL, builds>>

\* The rest of generated_execute_tool for a thread that had to wait in
\* get_tools().
generated_execute_tool_dispatch(t) ==
    /\ proc = "running" /\ pc[t] = "get_tools" /\ frame[t].op = "execute_tool"
    /\ OnceLock_get(TOOLS).set
    /\ \E a \in FreeAddrs(heap) :
         Complete(t, "execute_tool", frame[t].in,
                  Dispatch(heap, a, OnceLock_get(TOOLS).v, frame[t].name,
                           frame[t].args, PLUGIN_CONFIG))
    /\ UNCHANGED <<declared, TOOLS, building, PLUGIN_CONFIG, DB_POOL, builds>>

\* generated_execute_tool in two steps, for a registry that is built: first
\* the lookup and the handler, which read the registry and whatever the
\* handler reads; then return_success or return_error, which allocate.
\* Between the two the thread holds the handler's result in its own frame.
Handle(tools, name, args, cell) ==
    IF name \in DOMAIN tools.tools
    THEN LET tool == tools.tools[name]
             r == CallHandler(tool.handler, args, cell)
         IN  [r |-> r,
              invoked |-> <<[tool |-> tool.name, handler |-> tool.handler,
                             args |-> args, result |-> r]>>]
    ELSE [r |-> HErr("Unknown tool: " \o name), invoked |-> <<>>]

generated_execute_tool_handler(t, tool_name, args_json) ==
    /\ proc = "running" /\ pc[t] = "idle"
    /\ to_str(tool_name).ok /\ from_slice(args_json).ok
    /\ OnceLock_get(TOOLS).set
    /\ LET in == <<tool_name, args_json>>
           o == Handle(OnceLock_get(TOOLS).v, to_str(tool_name).v,
                       from_slice(args_json).v, PLUGIN_CONFIG)
       IN  IF o.r.kind = "Panic"
           THEN Complete(t, "execute_tool", in, Panicked(heap, o.invoked))
           ELSE /\ pc' = [pc EXCEPT ![t] = "return"]
                /\ frame' = [frame EXCEPT ![t] =
                               [op |-> "execute_tool", in |-> in,
                                name |-> to_str(tool_name).v,
                                args |-> from_slice(args_json).v,
                                config |-> None, outcome |-> o]]
                /\ UNCHANGED <<heap, held, last, proc, cfgLog>>
    /\ UNCHANGED <<declared, TOOLS, building, PLUGIN_CONFIG, DB_POOL, builds>>

generated_execute_tool_return(t) ==
    /\ proc = "running" /\ pc[t] = "return"
    /\ \E a \in FreeAddrs(heap) :
         LET o == frame[t].outcome
         IN  Complete(t, "execute_tool", frame[t].in,
                 IF o.r.kind = "Ok"
                 THEN Returned(return_success(heap, a, o.r.v), o.invoked)
                 ELSE Returned(return_error(heap, a, o.r.e), o.invoked))
    /\ UNCHANGED <<declared, TOOLS, building, PLUGIN_CONFIG, DB_POOL, builds>>

\* ListTools mutated: the iteration starts at a place that depends on where
\* the result is allocated.
ListTools_from_address(h, a, tools) ==
    LET n == Len(tools.order)
    IN  Returned(return_success(h, a,
                     Arr([i \in 1..n |->
                            to_json_schema(tools.tools[tools.order[((i + a) % n) + 1]])])),
                 <<>>)

\* ListTools mutated: the iteration stops one tool short.
ListTools_short(h, a, tools) ==
    Returned(return_success(h, a,
                 Arr([i \in 1..(Len(tools.order) - 1) |->
                        to_json_schema(tools.tools[tools.order[i]])])),
             <<>>)

\* tools.values().map(|t| t.to_json_schema()).collect(), then return_success.
ListTools(h, a, tools) ==
    Returned(return_success(h, a,
                 Arr([i \in 1..Len(tools.order) |->
                        to_json_schema(tools.tools[tools.order[i]])])),
             <<>>)

generated_list_tools(t) ==
    /\ proc = "running" /\ pc[t] = "idle"
    /\ IF OnceLock_get(TOOLS).set
       THEN \E a \in FreeAddrs(heap) :
                Complete(t, "list_tools", <<>>, ListTools(heap, a, OnceLock_get(TOOLS).v))
       ELSE /\ pc' = [pc EXCEPT ![t] = "get_tools"]
            /\ frame' = [frame EXCEPT ![t] = [NoFrame EXCEPT !.op = "list_tools"]]
            /\ UNCHANGED <<heap, held, last, proc, cfgLog>>
    /\ UNCHANGED <<declared, TOOLS, building, PLUGIN_CONFIG, DB_POOL, builds>>

generated_list_tools_emit(t) ==
    /\ proc = "running" /\ pc[t] = "get_tools" /\ frame[t].op = "list_tools"
    /\ OnceLock_get(TOOLS).set
    /\ \E a \in FreeAddrs(heap) :
         Complete(t, "list_tools", <<>>, ListTools(heap, a, OnceLock_get(TOOLS).v))
    /\ UNCHANGED <<declared, TOOLS, building, PLUGIN_CONFIG, DB_POOL, builds>>

\* get_tools(): TOOLS.get_or_init(closure).  The first caller runs the
\* closure; callers that arrive meanwhile wait until the value is set.
get_tools_init(t) ==
    /\ proc = "running" /\ pc[t] = "get_tools"
    /\ OnceLock_may_init(TOOLS)
    /\ TOOLS' = [TOOLS EXCEPT !.state = "running"]
    /\ building' = [building EXCEPT ![t] = [map |-> EmptyMap, next |-> 1]]
    /\ pc' = [pc EXCEPT ![t] = "build"]
    /\ UNCHANGED <<declared, PLUGIN_CONFIG, DB_POOL, heap, held, frame, last,
                   proc, builds, cfgLog>>

\* The closure: let tool = $tool; map.insert(tool.name.clone(), tool);
get_tools_insert(t) ==
    /\ proc = "running" /\ pc[t] = "build"
    /\ building[t].next <= Len(declared)
    /\ LET tool == declared[building[t].next]
       IN  building' = [building EXCEPT ![t] =
                          [map |-> MapInsert(@.map, tool.name, tool),
                           next |-> @.next + 1]]
    /\ UNCHANGED <<declared, TOOLS, PLUGIN_CONFIG, DB_POOL, heap, held, pc,
                   frame, last, proc, builds, cfgLog>>

\* The closure returns the map and the cell takes it.
get_tools_set(t) ==
    /\ proc = "running" /\ pc[t] = "build"
    /\ building[t].next > Len(declared)
    /\ \E order \in Orders(DOMAIN building[t].map) :
         TOOLS' = [state |-> "done",
                   value |-> [tools |-> building[t].map, order |-> order]]
    /\ building' = [building EXCEPT ![t] = NoBuild]
    /\ builds' = builds + 1
    /\ pc' = [pc EXCEPT ![t] = "get_tools"]
    /\ UNCHANGED <<declared, PLUGIN_CONFIG, DB_POOL, heap, held, frame, last,
                   proc, cfgLog>>

(***************************************************************************)
(* declare_plugin_config!, declare_plugin_init!, declare_config_schema!.   *)
(***************************************************************************)
\* OnceCell::set mutated: it stores and reports Ok whatever the cell holds.
OnceCell_set_always(cell, v) == [ok |-> TRUE, cell |-> Some(v)]

\* OnceCell::set mutated: it reports Err once the cell is set, but has
\* stored the value all the same.
OnceCell_set_overwrite(cell, v) == [ok |-> ~cell.set, cell |-> Some(v)]

\* OnceCell::set: Ok and the value stored while the cell is unset, Err and
\* the cell untouched once it is set.
OnceCell_set(cell, v) ==
    IF cell.set THEN [ok |-> FALSE, cell |-> cell]
    ELSE [ok |-> TRUE, cell |-> Some(v)]

\* plugin_configure mutated: a payload that does not parse uses up the
\* cell, which is left holding a default configuration.
plugin_configure_spent(t, config_json) ==
    /\ proc = "running" /\ pc[t] = "idle"
    /\ LET config == config_from_slice(config_json)
       IN  IF ~config.ok
           THEN /\ PLUGIN_CONFIG' =
                     OnceCell_set(PLUGIN_CONFIG,
                                  [database_url |-> "", max_connections |-> 0]).cell
                /\ Complete(t, "configure", <<config_json>>, ReturnedCode(1, heap, <<>>))
           ELSE /\ pc' = [pc EXCEPT ![t] = "configure_set"]
                /\ frame' = [frame EXCEPT ![t] =
                               [NoFrame EXCEPT !.op = "configure",
                                               !.in = <<config_json>>,
                                               !.config = Some(config.v)]]
                /\ UNCHANGED <<heap, held, last, proc, cfgLog, PLUGIN_CONFIG>>
    /\ UNCHANGED <<declared, TOOLS, building, DB_POOL, builds>>

\* plugin_configure up to the store: parse the payload, return 1 when that
\* fails.
plugin_configure(t, config_json) ==
    /\ proc = "running" /\ pc[t] = "idle"
    /\ LET config == config_from_slice(config_json)
       IN  IF ~config.ok
           THEN Complete(t, "configure", <<config_json>>, ReturnedCode(1, heap, <<>>))
           ELSE /\ pc' = [pc EXCEPT ![t] = "configure_set"]
                /\ frame' = [frame EXCEPT ![t] =
                               [NoFrame EXCEPT !.op = "configure",
                                               !.in = <<config_json>>,
                                               !.config = Some(config.v)]]
                /\ UNCHANGED <<heap, held, last, proc, cfgLog>>
    /\ UNCHANGED <<declared, TOOLS, building, PLUGIN_CONFIG, DB_POOL, builds>>

\* __PLUGIN_CONFIG.set(config): 2 when it is set already, else 0.
plugin_configure_set(t) ==
    /\ proc = "running" /\ pc[t] = "configure_set"
    /\ LET r == OnceCell_set(PLUGIN_CONFIG, frame[t].config.v)
       IN  /\ PLUGIN_CONFIG' = r.cell
           /\ Complete(t, "configure", frame[t].in,
                       ReturnedCode(IF r.ok THEN 0 ELSE 2, heap, <<>>))
    /\ UNCHANGED <<declared, TOOLS, building, DB_POOL, builds>>

\* fn init of the declare_plugin_init! example: read the configuration,
\* connect (which the environment lets succeed or not), keep the pool.
init(cell, pool, connects) ==
    LET config == get_config(cell)
    IN  IF config.panic THEN [kind |-> "Panic", pool |-> pool]
        ELSE IF ~connects
            THEN [kind |-> "Err", e |-> "Failed to connect: refused", pool |-> pool]
        ELSE IF pool
            THEN [kind |-> "Err", e |-> "DB already initialized", pool |-> pool]
        ELSE [kind |-> "Ok", pool |-> TRUE]

\* plugin_init mutated: on Err it returns 1 and writes no message.
plugin_init_silent(t, connects) ==
    /\ proc = "running" /\ pc[t] = "idle"
    /\ LET r == init(PLUGIN_CONFIG, DB_POOL, connects)
       IN  /\ DB_POOL' = r.pool
           /\ CASE r.kind = "Ok" ->
                     Complete(t, "init", <<>>, ReturnedCode(0, heap, <<>>))
                [] r.kind = "Err" ->
                     Complete(t, "init", <<>>, ReturnedCode(1, heap, <<>>))
                [] r.kind = "Panic" ->
                     Complete(t, "init", <<>>, Panicked(heap, <<>>))
    /\ UNCHANGED <<declared, TOOLS, building, PLUGIN_CONFIG, builds>>

\* plugin_init: 0 on Ok, return_error on Err.
plugin_init(t, connects) ==
    /\ proc = "running" /\ pc[t] = "idle"
    /\ LET r == init(PLUGIN_CONFIG, DB_POOL, connects)
       IN  /\ DB_POOL' = r.pool
           /\ CASE r.kind = "Ok" ->
                     Complete(t, "init", <<>>, ReturnedCode(0, heap, <<>>))
                [] r.kind = "Err" ->
                     \E a \in FreeAddrs(heap) :
                        Complete(t, "init", <<>>, Returned(return_error(heap, a, r.e), <<>>))
                [] r.kind = "Panic" ->
                     Complete(t, "init", <<>>, Panicked(heap, <<>>))
    /\ UNCHANGED <<declared, TOOLS, building, PLUGIN_CONFIG, builds>>

\* schema_for!(PluginConfig): the schema document compiled into the plugin.
ConfigSchema ==
    Obj("title" :> Str("PluginConfig")
        @@ "type" :> Str("object")
        @@ "required" :> Arr(<<Str("database_url"), Str("max_connections")>>))

\* plugin_get_config_schema mutated: before the plugin is configured it
\* returns 1 and no schema.
plugin_get_config_schema_gated(t) ==
    /\ proc = "running" /\ pc[t] = "idle"
    /\ \E a \in FreeAddrs(heap) :
         LET schema_json == to_string(ConfigSchema)
         IN  Complete(t, "get_config_schema", <<>>,
                 IF PLUGIN_CONFIG.set
                 THEN Returned([code |-> 0,
                                out |-> [heap |-> VecAlloc(heap, a, schema_json),
                                         result_len |-> Len(schema_json),
                                         result_buf |-> a]],
                               <<>>)
                 ELSE ReturnedCode(1, heap, <<>>))
    /\ UNCHANGED <<declared, TOOLS, building, PLUGIN_CONFIG, DB_POOL, builds>>

\* plugin_get_config_schema: the schema text in a buffer of its own.
plugin_get_config_schema(t) ==
    /\ proc = "running" /\ pc[t] = "idle"
    /\ \E a \in FreeAddrs(heap) :
         LET schema_json == to_string(ConfigSchema)
         IN  Complete(t, "get_config_schema", <<>>,
                 Returned([code |-> 0,
                           out |-> [heap |-> VecAlloc(heap, a, schema_json),
                                    result_len |-> Len(schema_json),
                                    result_buf |-> a]],
                          <<>>))
    /\ UNCHANGED <<declared, TOOLS, building, PLUGIN_CONFIG, DB_POOL, builds>>

(***************************************************************************)
(* standard_free_string.                                                   *)
(***************************************************************************)
\* Is (ptr, capacity) a block the allocator handed out and still holds?
IsBlock(h, ptr, capacity) ==
    ptr \in DOMAIN h /\ h[ptr].live /\ h[ptr].cap = capacity

\* What Vec::from_raw_parts(ptr, capacity, capacity) and its drop can come
\* to when the pair is no block of the allocator (undefined behaviour): the
\* allocator aborts, or goes on with the heap as it is, or releases whatever
\* block lies at ptr.
BadFreeOutcomes(h, ptr) ==
    {[proc |-> "aborted", heap |-> h], [proc |-> "running", heap |-> h]}
        \cup (IF ptr \in DOMAIN h
              THEN {[proc |-> "running", heap |-> [h EXCEPT ![ptr] = NoBlock]]}
              ELSE {})

\* standard_free_string mutated: no test of the pointer and the capacity
\* before the Vec is rebuilt.
standard_free_string_unguarded(t, ptr, capacity) ==
    /\ proc = "running" /\ pc[t] = "idle"
    /\ \E o \in (IF IsBlock(heap, ptr, capacity)
                 THEN {[proc |-> "running", heap |-> VecDrop(heap, ptr, capacity)]}
                 ELSE BadFreeOutcomes(heap, ptr)) :
         /\ heap' = o.heap
         /\ proc' = o.proc
    /\ held' = held \ {<<ptr, capacity>>}
    /\ last' = [NoCall EXCEPT !.op = "free_string", !.t = t,
                              !.in = <<ptr, capacity>>,
                              !.returned = (proc' = "running"),
                              !.block = IsBlock(heap, ptr, capacity)]
    /\ UNCHANGED <<declared, TOOLS, building, PLUGIN_CONFIG, DB_POOL, pc, frame,
                   builds, cfgLog>>

\* standard_free_string mutated: a capacity of one byte is taken for an
\* empty buffer too.
standard_free_string_above_one(t, ptr, capacity) ==
    /\ proc = "running" /\ pc[t] = "idle"
    /\ \E o \in (IF ptr # NULL /\ capacity > 1
                 THEN IF IsBlock(heap, ptr, capacity)
                      THEN {[proc |-> "running", heap |-> VecDrop(heap, ptr, capacity)]}
                      ELSE BadFreeOutcomes(heap, ptr)
                 ELSE {[proc |-> "running", heap |-> heap]}) :
         /\ heap' = o.heap
         /\ proc' = o.proc
    /\ held' = held \ {<<ptr, capacity>>}
    /\ last' = [NoCall EXCEPT !.op = "free_string", !.t = t,
                              !.in = <<ptr, capacity>>,
                              !.returned = (proc' = "running"),
                              !.block = IsBlock(heap, ptr, capacity)]
    /\ UNCHANGED <<declared, TOOLS, building, PLUGIN_CONFIG, DB_POOL, pc, frame,
                   builds, cfgLog>>

standard_free_string(t, ptr, capacity) ==
    /\ proc = "running" /\ pc[t] = "idle"
    /\ \E o \in (IF ptr # NULL /\ capacity > 0
                 THEN IF IsBlock(heap, ptr, capacity)
                      THEN {[proc |-> "running", heap |-> VecDrop(heap, ptr, capacity)]}
                      ELSE BadFreeOutcomes(heap, ptr)
                 ELSE {[proc |-> "running", heap |-> heap]}) :
         /\ heap' = o.heap
         /\ proc' = o.proc
    /\ held' = held \ {<<ptr, capacity>>}
    /\ last' = [NoCall EXCEPT !.op = "free_string", !.t = t,
                              !.in = <<ptr, capacity>>,
                              !.returned = (proc' = "running"),
                              !.block = IsBlock(heap, ptr, capacity)]
    /\ UNCHANGED <<declared, TOOLS, building, PLUGIN_CONFIG, DB_POOL, pc, frame,
                   builds, cfgLog>>

(***************************************************************************)
(* The host.                                                               *)
(***************************************************************************)
\* Configuration payloads: two that fit the configuration type, one that is
\* JSON of another shape, one that is no JSON.
PayloadA == "{\"database_url\":\"a\",\"max_connections\":1}"
PayloadB == "{\"max_connections\":2,\"database_url\":\"b\"}"
PayloadShape == "{\"database_url\":\"a\"}"
PayloadBad == "{"

\* A host that follows the buffer protocol frees what it holds, or the
\* empty buffer.
HostFrees == held \cup {<<NULL, 0>>}

\* The thread of a host that makes one call at a time.
HostThread == CHOOSE t \in Threads : TRUE

\* The whole protocol for a host that makes one call at a time.
Step(t) ==
    \/ \E n \in {"hello", "status", "nope"}, a \in {"{}", "{"} :
          generated_execute_tool(t, n, a)
    \/ generated_execute_tool_dispatch(t)
    \/ generated_list_tools(t)
    \/ generated_list_tools_emit(t)
    \/ get_tools_init(t)
    \/ get_tools_insert(t)
    \/ get_tools_set(t)
    \/ \E p \in {PayloadA, PayloadB, PayloadBad} : plugin_configure(t, p)
    \/ plugin_configure_set(t)
    \/ \E c \in BOOLEAN : plugin_init(t, c)
    \/ plugin_get_config_schema(t)
    \/ \E b \in HostFrees : standard_free_string(t, b[1], b[2])

Init == InitWith(ToolsMain, MaxBufs, FALSE)
Next == Step(HostThread)
Spec == Init /\ [][Next]_vars

\* Dispatch: every kind of tool name and argument bytes, against plugins
\* whose failing tool reports one of several messages.
HostNames ==
    {"hello", "status", "get_product", "report", "nope", "Hello", "n\"x",
     "he" \o BadByte}
HostArgs == {"{}", "{\"name\":\"Ada\"}", " { \"name\" : 1 } ", "7", "{", ""}
Messages == {"Product \"x\" not found", "", "a\\b"}

\* A tool whose handler succeeds with a value that looks like an error.
ReportTool ==
    handler(builder("report", "Report the last failure"),
            Returns(HOk(Obj("error" :> Str("disk full")), None)))

ToolsFailing(msg) ==
    <<HelloTool, StatusTool, ReportTool,
      handler(param_i64(builder("get_product", "Get a product"),
                        "product_id", "The product ID", TRUE),
              Returns(HErr(msg)))>>

StepDispatch(t) ==
    \/ \E n \in HostNames, a \in HostArgs : generated_execute_tool(t, n, a)
    \/ generated_execute_tool_dispatch(t)
    \/ generated_list_tools(t)
    \/ generated_list_tools_emit(t)
    \/ get_tools_init(t)
    \/ get_tools_insert(t)
    \/ get_tools_set(t)
    \/ plugin_configure(t, PayloadA)
    \/ plugin_configure_set(t)
    \/ \E b \in HostFrees : standard_free_string(t, b[1], b[2])

InitDispatch == \E msg \in Messages : InitWith(ToolsFailing(msg), 1, FALSE)
NextDispatch == StepDispatch(HostThread)
SpecDispatch == InitDispatch /\ [][NextDispatch]_vars

\* Configuration: all threads configure, with every payload, and run the
\* tool that reads the configuration; the history is on.
\* The configure calls made so far, those in progress included.
ConfigureCalls == Len(cfgLog.calls) + Cardinality({u \in Threads : pc[u] = "configure_set"})

ConfigureStep(t) ==
    \/ /\ ConfigureCalls < MaxCfgLog
       /\ \E p \in {PayloadA, PayloadB, PayloadShape, PayloadBad} : plugin_configure(t, p)
    \/ plugin_configure_set(t)

ServeStep(t) ==
    \/ generated_execute_tool(t, "status", "{}")
    \/ generated_execute_tool_dispatch(t)
    \/ get_tools_init(t)
    \/ get_tools_insert(t)
    \/ get_tools_set(t)
    \/ \E b \in HostFrees : standard_free_string(t, b[1], b[2])

InitConfig == InitWith(<<StatusTool>>, 1, TRUE)
NextConfig == (\E t \in Threads : ConfigureStep(t)) \/ ServeStep(HostThread)
SpecConfig == InitConfig /\ [][NextConfig]_vars

\* Reading the configuration: all threads configure while the host runs a
\* tool that reads it with get_config and one that reads it with
\* try_get_config; the history is on.
ProbeTool == handler(builder("probe", "Is the plugin configured"), ProbeHandler)

AccessStep(t) ==
    \/ \E n \in {"status", "probe"} : generated_execute_tool(t, n, "{}")
    \/ generated_execute_tool_dispatch(t)
    \/ get_tools_init(t)
    \/ get_tools_insert(t)
    \/ get_tools_set(t)
    \/ \E b \in HostFrees : standard_free_string(t, b[1], b[2])

InitAccess == InitWith(<<StatusTool, ProbeTool>>, 1, TRUE)
NextAccess == (\E t \in Threads : ConfigureStep(t)) \/ AccessStep(HostThread)
SpecAccess == InitAccess /\ [][NextAccess]_vars

\* The registry: all threads make their first use at once, for several
\* tool lists.
DeclaredLists == {<<>>, <<HelloTool>>, ToolsMain, ToolsAll}

StepRegistry(t) ==
    \/ \E n \in {"hello", "get_product", "nope"} : generated_execute_tool(t, n, "{}")
    \/ generated_execute_tool_dispatch(t)
    \/ generated_list_tools(t)
    \/ generated_list_tools_emit(t)
    \/ get_tools_init(t)
    \/ get_tools_insert(t)
    \/ get_tools_set(t)
    \/ \E b \in HostFrees : standard_free_string(t, b[1], b[2])

InitRegistry == \E tools \in DeclaredLists : InitWith(tools, 1, FALSE)
NextRegistry == \E t \in Threads : StepRegistry(t)
SpecRegistry == InitRegistry /\ [][NextRegistry]_vars

\* Threads that call execute_tool at the same time on tools whose handlers
\* are pure; the first use builds the registry.
ArgsAda == "{\"name\":\"Ada\"}"
ConcurrentCalls ==
    {<<"hello", "{}">>, <<"hello", ArgsAda>>, <<"get_product", "{}">>, <<"nope", "{}">>}
StepConcurrent(t) ==
    \/ /\ ~OnceLock_get(TOOLS).set
       /\ generated_execute_tool(t, "hello", "{}")
    \/ generated_execute_tool_dispatch(t)
    \/ get_tools_init(t)
    \/ get_tools_insert(t)
    \/ get_tools_set(t)
    \/ \E in \in ConcurrentCalls : generated_execute_tool_handler(t, in[1], in[2])
    \/ generated_execute_tool_return(t)
    \/ \E b \in HostFrees : standard_free_string(t, b[1], b[2])

InitConcurrent == InitWith(<<HelloTool, FailTool>>, 2, FALSE)
NextConcurrent == \E t \in Threads : StepConcurrent(t)
SpecConcurrent == InitConcurrent /\ [][NextConcurrent]_vars

\* Tool lists that declare the name hello twice, with different
\* descriptions, parameters and handlers.
HelloAgain ==
    handler(builder("hello", "Say hello again"),
            Returns(HOk(Obj("message" :> Str("Hello again!")), None)))
DuplicateLists ==
    {<<HelloTool, HelloAgain>>, <<HelloAgain, HelloTool>>,
     <<HelloTool, StatusTool, HelloAgain>>, <<HelloAgain, HelloTool, HelloAgain>>}

StepDuplicate(t) ==
    \/ \E n \in {"hello", "nope"} : generated_execute_tool(t, n, "{}")
    \/ generated_execute_tool_dispatch(t)
    \/ generated_list_tools(t)
    \/ generated_list_tools_emit(t)
    \/ get_tools_init(t)
    \/ get_tools_insert(t)
    \/ get_tools_set(t)
    \/ \E b \in HostFrees : standard_free_string(t, b[1], b[2])

InitDuplicate == \E tools \in DuplicateLists : InitWith(tools, 1, FALSE)
NextDuplicate == \E t \in Threads : StepDuplicate(t)
SpecDuplicate == InitDuplicate /\ [][NextDuplicate]_vars

\* The smallest results: tools whose handlers return the number 0, the
\* empty string and an error with an empty message.
ZeroTool == handler(builder("zero", "Count nothing"), Returns(HOk(Num(0), None)))
BlankTool == handler(builder("blank", "Say nothing"), Returns(HOk(Str(""), None)))
MuteTool == handler(builder("mute", "Fail silently"), Returns(HErr("")))

StepSmall(t) ==
    \/ \E n \in {"zero", "blank", "mute", ""} : generated_execute_tool(t, n, "{}")
    \/ generated_execute_tool_dispatch(t)
    \/ generated_list_tools(t)
    \/ generated_list_tools_emit(t)
    \/ get_tools_init(t)
    \/ get_tools_insert(t)
    \/ get_tools_set(t)
    \/ \E b \in HostFrees : standard_free_string(t, b[1], b[2])

InitSmall == \E tools \in {<<>>, <<ZeroTool, BlankTool, MuteTool>>} : InitWith(tools, MaxBufs, FALSE)
NextSmall == StepSmall(HostThread)
SpecSmall == InitSmall /\ [][NextSmall]_vars

\* Repeated listing: all threads list the tools and run one, again and
\* again, with the history on.
StepStable(t) ==
    \/ generated_execute_tool(t, "hello", "{}")
    \/ generated_execute_tool_dispatch(t)
    \/ generated_list_tools(t)
    \/ generated_list_tools_emit(t)
    \/ get_tools_init(t)
    \/ get_tools_insert(t)
    \/ get_tools_set(t)
    \/ \E b \in HostFrees : standard_free_string(t, b[1], b[2])

InitStable == \E tools \in DeclaredLists : InitWith(tools, 2, TRUE)
NextStable == \E t \in Threads : StepStable(t)
SpecStable == InitStable /\ [][NextStable]_vars

\* Scheduling: every thread calls every entry point; a call in flight is
\* continued by the steps of Continue, which a fair scheduler takes.  The
\* host starts a call only while the allocator has room for its result.
Room ==
    Cardinality(held) + Cardinality({u \in Threads : pc[u] # "idle"})
        < Cardinality(DOMAIN heap)

Start(t) ==
    \/ \E n \in {"hello", "get_product", "nope"} : generated_execute_tool(t, n, "{}")
    \/ generated_list_tools(t)
    \/ \E p \in {PayloadA, PayloadBad} : plugin_configure(t, p)

\* The steps inside get_or_init and OnceCell::set, and the steps in which
\* a thread that was in get_tools finishes its call.
Inside(t) ==
    \/ get_tools_init(t)
    \/ get_tools_insert(t)
    \/ get_tools_set(t)
    \/ plugin_configure_set(t)

Finish(t) ==
    \/ generated_execute_tool_dispatch(t)
    \/ generated_list_tools_emit(t)

\* The guard of Finish: the thread is past get_tools' wait and the
\* allocator has a block for the result.
CanFinish(t) ==
    /\ proc = "running" /\ pc[t] = "get_tools"
    /\ frame[t].op \in {"execute_tool", "list_tools"}
    /\ OnceLock_get(TOOLS).set
    /\ FreeAddrs(heap) # {}

Continue(t) == Inside(t) \/ Finish(t)

Free(t) == \E b \in HostFrees : standard_free_string(t, b[1], b[2])

StepLive(t) ==
    \/ Room /\ Start(t)
    \/ Continue(t)
    \/ Free(t)

InitLive == InitWith(<<HelloTool, FailTool>>, 2, FALSE)
NextLive == \E t \in Threads : StepLive(t)
\* A thread inside a call is scheduled: weak fairness of Inside and of
\* Finish, the latter written out with the guard of Finish for its
\* enabledness.
FairLive ==
    \A t \in Threads :
        /\ WF_vars(Inside(t))
        /\ []<>(~CanFinish(t)) \/ []<><<Finish(t)>>_vars
SpecLive == InitLive /\ [][NextLive]_vars /\ FairLive

\* Plugins of one tool, built with the ToolBuilder from every list of up to
\* MaxParams parameters over two names, the six types and both flags.
MaxParams == 2
ParamNames == {"limit", "query"}
BuildParam(b, param_type, name, required) ==
    CASE param_type = "String"  -> param_string(b, name, "a parameter", required)
      [] param_type = "Integer" -> param_i64(b, name, "a parameter", required)
      [] param_type = "Number"  -> param_f64(b, name, "a parameter", required)
      [] param_type = "Boolean" -> param_bool(b, name, "a parameter", required)
      [] param_type = "Object"  -> param_object(b, name, "a parameter", required)
      [] param_type = "Array"   -> param_array(b, name, "a parameter", required)

RECURSIVE BuildParams(_, _)
BuildParams(b, specs) ==
    IF specs = <<>> THEN b
    ELSE BuildParams(BuildParam(b, Head(specs)[1], Head(specs)[2], Head(specs)[3]),
                     Tail(specs))

\* The six builder methods, by name.
BuilderMethods ==
    {"param_string", "param_i64", "param_f64", "param_bool", "param_object",
     "param_array"}
CallMethod(method, b, name, description, required) ==
    CASE method = "param_string" -> param_string(b, name, description, required)
      [] method = "param_i64"    -> param_i64(b, name, description, required)
      [] method = "param_f64"    -> param_f64(b, name, description, required)
      [] method = "param_bool"   -> param_bool(b, name, description, required)
      [] method = "param_object" -> param_object(b, name, description, required)
      [] method = "param_array"  -> param_array(b, name, description, required)

ParamSpecs == ParamType \X ParamNames \X BOOLEAN
ParamLists == UNION {[1..n -> ParamSpecs] : n \in 0..MaxParams}
BuiltTool(specs) ==
    handler(BuildParams(builder("search", "Search the catalog"), specs), HandleHello)

StepSchema(t) ==
    \/ generated_list_tools(t)
    \/ generated_list_tools_emit(t)
    \/ get_tools_init(t)
    \/ get_tools_insert(t)
    \/ get_tools_set(t)
    \/ \E b \in HostFrees : standard_free_string(t, b[1], b[2])

InitSchema == \E specs \in ParamLists : InitWith(<<BuiltTool(specs)>>, 1, FALSE)
NextSchema == StepSchema(HostThread)
SpecSchema == InitSchema /\ [][NextSchema]_vars

\* A host that breaks the buffer protocol: besides what it holds it passes
\* to free a pair it holds with a capacity one too large, and the pair it
\* has just freed a second time.
WildFrees ==
    HostFrees
        \cup {<<b[1], b[2] + 1>> : b \in held}
        \cup (IF last.op = "free_string" /\ last.block THEN {last.in} ELSE {})

StepFree(t) ==
    \/ generated_execute_tool(t, "hello", "{}")
    \/ generated_execute_tool_dispatch(t)
    \/ generated_list_tools(t)
    \/ generated_list_tools_emit(t)
    \/ get_tools_init(t)
    \/ get_tools_insert(t)
    \/ get_tools_set(t)
    \/ plugin_get_config_schema(t)
    \/ \E b \in WildFrees : standard_free_string(t, b[1], b[2])

InitFree == InitWith(ToolsMain, MaxBufs, FALSE)
NextFree == StepFree(HostThread)
SpecFree == InitFree /\ [][NextFree]_vars

(***************************************************************************)
(* The lifecycle of section 4.3, read off the plugin's state: Configured   *)
(* once configure has stored a value, Ready once init has succeeded too.   *)
(***************************************************************************)
Lifecycle ==
    IF ~PLUGIN_CONFIG.set THEN "Loaded"
    ELSE IF ~DB_POOL THEN "Configured"
    ELSE "Ready"

(***************************************************************************)
(* Properties.                                                             *)
(***************************************************************************)
Outstanding == {a \in DOMAIN heap : heap[a].live}

\* Is this text the JSON value v?
JsonIs(text, v) == from_slice(text) = [ok |-> TRUE, v |-> v]

\* C1 -- a buffer handed to the host has one owner: while the host holds a
\* pair, the block at that address is allocated with that capacity and no
\* step changes it; the only step that ends the hold is the host's free of
\* that very pair; and the blocks allocated are exactly the pairs held, so
\* that one free per buffer leaves nothing outstanding.
C1_Held ==
    /\ \A b \in held : IsBlock(heap, b[1], b[2])
    /\ {b[1] : b \in held} = Outstanding
    /\ Cardinality(held) = Cardinality(Outstanding)
C1_Step ==
    \A b \in held :
        IF b \in held' THEN heap'[b[1]] = heap[b[1]]
        ELSE last'.op = "free_string" /\ last'.in = b
C1_SingleOwner == []C1_Held /\ [][C1_Step]_vars

\* Two buffers were handed out, one has been freed, the other is still held.
C1_Witness ==
    /\ last.op = "free_string" /\ last.in[2] > 0
    /\ Cardinality(held) = 1 /\ Cardinality(Outstanding) = 1

\* The configuration values of the two payloads that fit the type.
ParsedPayload ==
    (PayloadA :> [database_url |-> "a", max_connections |-> 1])
        @@ (PayloadB :> [database_url |-> "b", max_connections |-> 2])
Parses(p) == p \in DOMAIN ParsedPayload

\* C2 as stated -- the first configure call to complete returns 0 and the
\* second returns 2 whatever the payloads are, and the configuration is the
\* first payload's value.
C2_Original ==
    LET c == cfgLog.calls
    IN  /\ Len(c) >= 1 => c[1].code = 0
        /\ Len(c) >= 2 =>
              /\ c[2].code = 2
              /\ PLUGIN_CONFIG.set
              /\ Parses(c[1].payload) => PLUGIN_CONFIG.v = ParsedPayload[c[1].payload]

\* C2 amended -- a configure call whose payload does not parse returns 1;
\* of the calls whose payload parses the first returns 0 and every later one
\* returns 2; the configuration stored, and read by a handler afterwards, is
\* the value of the first payload that parsed.
C2_Amended ==
    LET c == cfgLog.calls
        earlier(i) == \E j \in 1..(i - 1) : Parses(c[j].payload)
    IN  \A i \in 1..Len(c) :
          /\ c[i].code = IF ~Parses(c[i].payload) THEN 1
                         ELSE IF earlier(i) THEN 2 ELSE 0
          /\ (Parses(c[i].payload) /\ ~earlier(i)) =>
                /\ PLUGIN_CONFIG = Some(ParsedPayload[c[i].payload])
                /\ (last.op = "execute_tool" /\ last.returned /\ last.invoked # <<>>) =>
                      last.invoked[1].result.cfg = Some(ParsedPayload[c[i].payload])

\* Two configure calls with different payloads that parse have completed,
\* and a handler has read the configuration since.
C2_Witness ==
    LET c == cfgLog.calls
    IN  /\ Len(c) = 2 /\ c[1].code = 0 /\ c[2].code = 2
        /\ c[1].payload # c[2].payload
        /\ last.op = "execute_tool" /\ last.returned /\ last.invoked # <<>>

\* The registry the declared tools make: per name the tool declared last.
RegistryOf(tools) ==
    LET names == {tools[i].name : i \in DOMAIN tools}
        lastOf(n) == CHOOSE i \in DOMAIN tools :
                        /\ tools[i].name = n
                        /\ \A j \in DOMAIN tools : tools[j].name = n => j <= i
    IN  [n \in names |-> tools[lastOf(n)]]

\* C3 -- under concurrent first use the build closure completes exactly
\* once, the registry it publishes is the complete one and never changes
\* again, and every call that returns has seen exactly that registry:
\* list_tools lists each entry once, execute_tool finds a tool if and only if
\* it is declared.
C3_Registry ==
    /\ builds <= 1
    /\ (TOOLS.state = "done") <=> (builds = 1)
    /\ TOOLS.state = "done" =>
          /\ TOOLS.value.tools = RegistryOf(declared)
          /\ TOOLS.value.order \in Orders(DOMAIN RegistryOf(declared))
    /\ (last.op = "list_tools" /\ last.returned) =>
          /\ TOOLS.state = "done"
          /\ JsonIs(last.body,
                    Arr([i \in 1..Len(TOOLS.value.order) |->
                           to_json_schema(RegistryOf(declared)[TOOLS.value.order[i]])]))
    /\ (last.op = "execute_tool" /\ last.returned) =>
          /\ TOOLS.state = "done"
          /\ (last.in[1] \in DOMAIN RegistryOf(declared)) <=> (last.invoked # <<>>)
C3_Frozen == TOOLS.state = "done" => TOOLS' = TOOLS
C3_BuildOnce == []C3_Registry /\ [][C3_Frozen]_vars

\* A thread that arrived during the build is still waiting in get_tools while
\* the builder's own call has already returned.
C3_Witness ==
    /\ Len(declared) >= 2
    /\ TOOLS.state = "done" /\ builds = 1
    /\ last.op \in {"list_tools", "execute_tool"} /\ last.returned
    /\ \E t \in Threads : pc[t] = "get_tools" /\ last.t # t

\* What the handlers are given for the well-formed argument texts.
ArgValue ==
    ("{}" :> Obj(NoMembers))
        @@ ("{\"name\":\"Ada\"}" :> Obj("name" :> Str("Ada")))
        @@ (" { \"name\" : 1 } " :> Obj("name" :> Num(1)))
        @@ ("7" :> Num(7))
WellFormedArgs == DOMAIN ArgValue
MalformedArgs == {"{", ""}
RegisteredNames == {"hello", "status", "get_product", "report"}
UnknownNames == {"nope", "Hello", "n\"x"}
BadName == "he" \o BadByte

\* C4 -- execute_tool with an unregistered name and well-formed arguments
\* returns 1, writes {"error": "Unknown tool: <name>"} with the name as
\* given, and invokes no handler.
C4_UnknownTool ==
    (/\ last.op = "execute_tool"
     /\ last.in[1] \in UnknownNames
     /\ last.in[2] \in WellFormedArgs) =>
        /\ last.returned /\ last.code = 1 /\ last.written
        /\ JsonIs(last.body, Obj("error" :> Str("Unknown tool: " \o last.in[1])))
        /\ last.in[1] = "nope" => last.body = "{\"error\":\"Unknown tool: nope\"}"
        /\ last.invoked = <<>>

C4_Witness ==
    /\ last.op = "execute_tool" /\ last.in = <<"n\"x", "{}">>
    /\ last.code = 1 /\ TOOLS.state = "done"

\* C5 -- execute_tool on a registered tool with well-formed arguments invokes
\* the handler exactly once, with the parsed arguments; when the handler
\* returns Ok(value) the call returns 0 and the body is the text of exactly
\* that value, with no envelope around it.
C5_HandlerOk ==
    (/\ last.op = "execute_tool"
     /\ last.in[1] \in RegisteredNames
     /\ last.in[2] \in WellFormedArgs) =>
        /\ Len(last.invoked) = 1
        /\ last.invoked[1].tool = last.in[1]
        /\ last.invoked[1].args = ArgValue[last.in[2]]
        /\ last.invoked[1].result.kind = "Ok" =>
              /\ last.returned /\ last.code = 0 /\ last.written
              /\ JsonIs(last.body, last.invoked[1].result.v)
              /\ last.in = <<"hello", "{}">> =>
                    last.body = "{\"message\":\"Hello, World!\"}"
              /\ last.in = <<"hello", "{\"name\":\"Ada\"}">> =>
                    last.body = "{\"message\":\"Hello, Ada!\"}"
              /\ last.in[1] = "status" => last.body = "{\"status\":\"ok\"}"

C5_Witness ==
    /\ last.op = "execute_tool" /\ last.in = <<"hello", "{\"name\":\"Ada\"}">>
    /\ last.returned /\ last.code = 0

\* C6 -- execute_tool on a registered tool whose handler returns Err(msg)
\* returns 1 and writes {"error": msg}, for every message.
C6_HandlerErr ==
    (/\ last.op = "execute_tool"
     /\ last.invoked # <<>>
     /\ last.invoked[1].result.kind = "Err") =>
        /\ last.returned /\ last.code = 1 /\ last.written
        /\ JsonIs(last.body, Obj("error" :> Str(last.invoked[1].result.e)))
        /\ last.invoked[1].result.e = "Product \"x\" not found" =>
              last.body = "{\"error\":\"Product \\\"x\\\" not found\"}"
        /\ last.invoked[1].result.e = "" => last.body = "{\"error\":\"\"}"

C6_Witness ==
    /\ last.op = "execute_tool" /\ last.in[1] = "get_product"
    /\ last.invoked # <<>>
    /\ last.invoked[1].result = HErr("Product \"x\" not found")
    /\ last.code = 1

\* C7 -- execute_tool whose name bytes are no valid string or whose argument
\* bytes are no valid JSON returns 1 with a body {"error": <string>} and
\* invokes no handler, whether or not the name is registered.
C7_Malformed ==
    (/\ last.op = "execute_tool"
     /\ (last.in[1] = BadName \/ last.in[2] \in MalformedArgs)) =>
        /\ last.returned /\ last.code = 1 /\ last.written
        /\ last.invoked = <<>>
        /\ LET j == from_slice(last.body)
           IN  /\ j.ok /\ j.v.t = "obj"
               /\ DOMAIN j.v.members = {"error"}
               /\ j.v.members["error"].t = "str"

C7_Witness ==
    /\ last.op = "execute_tool" /\ last.in = <<"hello", "{">>
    /\ last.code = 1 /\ TOOLS.state = "done"

\* C8 -- an execute_tool call made before configure and initialize have both
\* succeeded does not run a handler and return an ordinary result.
C8_NoSilentProceed ==
    (/\ last.op = "execute_tool" /\ last.returned
     /\ last.code = 0 /\ last.invoked # <<>>) =>
        Lifecycle = "Ready"

\* C9 -- every execute_tool and initialize call ends by returning a code to
\* the host: no panic reaches the boundary.
C9_NoPanic ==
    /\ proc = "running"
    /\ \A t \in Threads : pc[t] # "panicked"
    /\ last.op \in {"execute_tool", "init"} => last.returned

\* C10 -- of the configure calls that threads make concurrently with
\* payloads that parse, exactly one returns 0 and every other returns 2, and
\* the configuration stored is the payload of the call that returned 0.
C10_OneWinner ==
    LET c == cfgLog.calls
        zeros == {i \in 1..Len(c) : c[i].code = 0}
        parsed == {i \in 1..Len(c) : Parses(c[i].payload)}
    IN  /\ zeros \subseteq parsed
        /\ Cardinality(zeros) <= 1
        /\ parsed # {} => Cardinality(zeros) = 1
        /\ \A i \in parsed \ zeros : c[i].code = 2
        /\ \A i \in zeros : PLUGIN_CONFIG = Some(ParsedPayload[c[i].payload])

\* The call that returned 0 completed while another thread's call, with
\* another payload, stood between its parse and its store; that call then
\* returned 2.
C10_Witness ==
    LET c == cfgLog.calls
    IN  /\ Len(c) = 2
        /\ c[1].code = 0 /\ c[1].racing
        /\ c[2].code = 2 /\ c[2].t # c[1].t
        /\ c[1].payload # c[2].payload

\* C11 -- the configuration cell holds at most one value and is written at
\* most once: a value stored is the parsed value of a configure payload, and
\* once the cell is set no step of any entry point changes the value or
\* unsets the cell.
C11_OneValue ==
    PLUGIN_CONFIG.set =>
        PLUGIN_CONFIG.v \in {ParsedPayload[p] : p \in DOMAIN ParsedPayload}
C11_Keep == PLUGIN_CONFIG.set => PLUGIN_CONFIG' = PLUGIN_CONFIG
C11_WrittenOnce == []C11_OneValue /\ [][C11_Keep]_vars

\* After configure, initialize and a tool call have succeeded, a configure
\* call with another payload has been turned away and the value is the old
\* one.
C11_Witness ==
    /\ PLUGIN_CONFIG = Some(ParsedPayload[PayloadA]) /\ DB_POOL
    /\ held # {}
    /\ last.op = "configure" /\ last.in = <<PayloadB>> /\ last.code = 2

C12_Return ==
    \A t \in Threads :
      /\ (pc[t] = "configure_set" /\ pc'[t] = "idle") =>
            /\ last'.op = "configure" /\ last'.t = t
            /\ last'.returned /\ ~last'.written
            /\ Parses(last'.in[1])
            /\ last'.code = IF PLUGIN_CONFIG.set THEN 2 ELSE 0
      /\ (/\ pc[t] = "idle" /\ pc'[t] = "idle"
          /\ last' # last /\ last'.op = "configure" /\ last'.t = t) =>
            /\ last'.returned /\ ~last'.written
            /\ ~Parses(last'.in[1])
            /\ last'.code = 1
            /\ PLUGIN_CONFIG' = PLUGIN_CONFIG
C13_OutParams ==
    (last.op \in {"execute_tool", "list_tools"} /\ last.returned) =>
        /\ last.written
        /\ last.buf # NULL /\ last.len > 0
        /\ <<last.buf, last.len>> \in held
        /\ IsBlock(heap, last.buf, last.len)
        /\ heap[last.buf].bytes = last.body
        /\ from_slice(last.body).ok

\* The path of a malformed name on a plugin whose registry was never built.
C13_Witness ==
    /\ last.op = "execute_tool" /\ last.in[1] = BadName
    /\ last.returned /\ last.written
    /\ TOOLS.state = "uninit"

\* C14 -- a free call whose pair is nonzero and names no allocation of that
\* capacity (the pair was freed before, or the capacity is not the one
\* reported) is detected: the call does not return and the process stops.
C14_Detected ==
    (/\ last.op = "free_string"
     /\ last.in[1] # NULL /\ last.in[2] > 0
     /\ ~last.block) =>
        (~last.returned /\ proc = "aborted")

\* C15 -- free of the null address with capacity zero is a no-op: the call
\* returns, releases nothing and leaves every outstanding buffer and all
\* plugin state as they were, each time it is made.
C15_Step ==
    (/\ last'.op = "free_string" /\ last'.in = <<NULL, 0>>
     /\ pc' = pc /\ building' = building /\ frame' = frame) =>
        /\ last'.returned
        /\ UNCHANGED <<heap, held, proc, declared, TOOLS, builds,
                       PLUGIN_CONFIG, DB_POOL>>
C15_NullFree == [][C15_Step]_vars

\* The empty buffer was freed while the host held a buffer and the plugin
\* was configured, initialized and had built its registry.
C15_Witness ==
    /\ last.op = "free_string" /\ last.in = <<NULL, 0>> /\ last.returned
    /\ held # {} /\ Outstanding # {}
    /\ PLUGIN_CONFIG.set /\ DB_POOL /\ TOOLS.state = "done"

\* C16 -- the capacity written to the length out-parameter is the byte
\* length of the serialized content, for results, errors and the schema: the
\* pair the host holds names a block of exactly that capacity holding exactly
\* that many bytes.
C16_ExactFit ==
    /\ last.written =>
          /\ last.len = Len(last.body)
          /\ heap[last.buf].cap = last.len
          /\ to_string(from_slice(last.body).v) = last.body
          /\ (last.op = "execute_tool" /\ last.in = <<"hello", "{}">>) =>
                last.len = 27
          /\ last.op = "get_config_schema" => last.len = Len(to_string(ConfigSchema))
    /\ \A b \in held :
          /\ heap[b[1]].cap = b[2]
          /\ Len(heap[b[1]].bytes) = b[2]

\* The host holds the schema and an error body at once.
C16_Witness ==
    /\ last.op = "get_config_schema" /\ last.written
    /\ Cardinality(held) = 2
    /\ \E b \in held : JsonIs(heap[b[1]].bytes, Obj("error" :> Str("Unknown tool: nope")))

\* What each call gives when the calls are made one after another: a code
\* and a body that depend on the call's own name and arguments only.
SeqResult ==
    (<<"hello", "{}">> :> <<0, "{\"message\":\"Hello, World!\"}">>)
        @@ (<<"hello", ArgsAda>> :> <<0, "{\"message\":\"Hello, Ada!\"}">>)
        @@ (<<"get_product", "{}">> :> <<1, "{\"error\":\"Product not found\"}">>)
        @@ (<<"nope", "{}">> :> <<1, "{\"error\":\"Unknown tool: nope\"}">>)

\* C17 -- execute_tool calls that run at the same time on pure handlers do
\* not interfere: each call returns the code and body it returns when run
\* alone, whatever the other threads do meanwhile; the buffers outstanding
\* at one time are distinct blocks, each still holding the body its call
\* returned; a returning call hands out a pair no outstanding buffer has, and
\* changes no outstanding buffer.
C17_Results ==
    /\ (last.op = "execute_tool" /\ last.returned) =>
          /\ <<last.code, last.body>> = SeqResult[last.in]
          /\ heap[last.buf].bytes = last.body
    /\ \A b \in held :
          /\ IsBlock(heap, b[1], b[2])
          /\ \E in \in DOMAIN SeqResult : heap[b[1]].bytes = SeqResult[in][2]
    /\ \A b, c \in held : b[1] = c[1] => b = c
C17_Return ==
    \A t \in Threads :
        (pc[t] \in {"return", "get_tools"} /\ pc'[t] = "idle") =>
            /\ last'.t = t /\ last'.in = frame[t].in
            /\ <<last'.buf, last'.len>> \notin held
            /\ held' = held \cup {<<last'.buf, last'.len>>}
            /\ \A b \in held : heap'[b[1]] = heap[b[1]]
C17_NoInterference == []C17_Results /\ [][C17_Return]_vars

\* One thread's call has returned while another thread, called with other
\* input, stands between its handler and its return, and the host still
\* holds the first call's buffer.
C17_Witness ==
    /\ last.op = "execute_tool" /\ last.returned
    /\ <<last.buf, last.len>> \in held
    /\ \E u \in Threads :
          /\ u # last.t /\ pc[u] = "return"
          /\ frame[u].in # last.in
          /\ frame[u].outcome.r.kind # (IF last.code = 0 THEN "Ok" ELSE "Err")

\* C18 -- the code of an execute_tool call that returns is 0 or 1, and it
\* is 0 exactly when the name is registered, the arguments parse, and the
\* one handler invoked returned Ok; the shape of the body plays no part: a
\* handler's Ok value with an "error" key still gives code 0.
C18_CodeDecides ==
    (last.op = "execute_tool" /\ last.returned) =>
        /\ last.code \in {0, 1}
        /\ (last.code = 0) <=>
              /\ last.in[1] \in RegisteredNames
              /\ last.in[2] \in WellFormedArgs
              /\ Len(last.invoked) = 1
              /\ last.invoked[1].result.kind = "Ok"
        /\ (last.in[1] = "report" /\ last.in[2] \in WellFormedArgs) =>
              /\ last.code = 0
              /\ last.body = "{\"error\":\"disk full\"}"

\* A handler has returned Ok of an object with an "error" key.
C18_Witness ==
    /\ last.op = "execute_tool" /\ last.in = <<"report", "{}">>
    /\ last.returned /\ last.code = 0
    /\ JsonIs(last.body, Obj("error" :> Str("disk full")))

\* C19 -- for a list of declared tools with unique names, the empty list
\* included, list_tools returns 0 and a JSON array with as many elements as
\* tools declared, in which every declared tool has exactly one descriptor,
\* an object carrying its name and description.
C19_OneDescriptorEach ==
    (last.op = "list_tools" /\ last.returned) =>
        /\ last.code = 0 /\ last.written
        /\ declared = <<>> => last.body = "[]"
        /\ LET j == from_slice(last.body)
               items == j.v.items
               Describes(k, tool) ==
                   /\ items[k].t = "obj"
                   /\ DOMAIN items[k].members = {"name", "description", "inputSchema"}
                   /\ items[k].members["name"] = Str(tool.name)
                   /\ items[k].members["description"] = Str(tool.description)
           IN  /\ j.ok /\ j.v.t = "arr"
               /\ Len(items) = Len(declared)
               /\ \A i \in DOMAIN declared :
                     Cardinality({k \in DOMAIN items : Describes(k, declared[i])}) = 1

\* The tool list of a plugin that declares three tools.
C19_Witness ==
    /\ last.op = "list_tools" /\ last.returned
    /\ Len(declared) = 3
    /\ from_slice(last.body).ok /\ Len(from_slice(last.body).v.items) = 3

\* The JSON Schema type name each parameter type stands for.
TypeName ==
    ("String" :> "string") @@ ("Integer" :> "integer") @@ ("Number" :> "number")
        @@ ("Boolean" :> "boolean") @@ ("Object" :> "object") @@ ("Array" :> "array")

DistinctNames(params) ==
    \A i, j \in DOMAIN params : params[i].name = params[j].name => i = j

\* In the descriptor text, does the "required" list match the parameters?
\* Every parameter marked required is listed exactly once, no optional one is
\* listed, and every listed name is a property of its parameter's type.
RequiredMatches(descriptor, params) ==
    LET schema == descriptor.members["inputSchema"].members
        req == schema["required"].items
        props == schema["properties"].members
        listed(i) == {k \in DOMAIN req : req[k] = Str(params[i].name)}
    IN  /\ \A i \in DOMAIN params :
              Cardinality(listed(i)) = IF params[i].required THEN 1 ELSE 0
        /\ \A k \in DOMAIN req :
              \E i \in DOMAIN params :
                  /\ params[i].required
                  /\ req[k] = Str(params[i].name)
                  /\ params[i].name \in DOMAIN props
        /\ \A i \in DOMAIN params :
              params[i].required =>
                  props[params[i].name].members["type"] = Str(TypeName[params[i].param_type])

\* C20 as stated -- for every tool built with the ToolBuilder the "required"
\* list of its descriptor matches the parameters marked required.
C20_Original ==
    (last.op = "list_tools" /\ last.returned /\ Len(declared) = 1) =>
        RequiredMatches(from_slice(last.body).v.items[1], declared[1].params)

\* C20 amended -- for every tool built with the ToolBuilder whose parameter
\* names are distinct, the "required" list of its descriptor matches the
\* parameters marked required.
C20_Amended ==
    (/\ last.op = "list_tools" /\ last.returned /\ Len(declared) = 1
     /\ DistinctNames(declared[1].params)) =>
        RequiredMatches(from_slice(last.body).v.items[1], declared[1].params)

\* The descriptor of a tool with one required and one optional parameter.
C20_Witness ==
    /\ last.op = "list_tools" /\ last.returned /\ Len(declared) = 1
    /\ Len(declared[1].params) = 2 /\ DistinctNames(declared[1].params)
    /\ declared[1].params[1].required /\ ~declared[1].params[2].required
    /\ declared[1].params[1].param_type = "Array"

\* C21 -- once the registry is built no step, and so no list_tools or
\* execute_tool call, adds, removes or replaces an entry of it, and every
\* list_tools call returns the descriptors the first one returned, in the
\* same order.
C21_SameList ==
    (last.op = "list_tools" /\ last.returned) =>
        /\ cfgLog.listed.set
        /\ last.body = cfgLog.listed.v
C21_Untouched ==
    builds >= 1 =>
        /\ TOOLS'.value.tools = TOOLS.value.tools
        /\ TOOLS'.value.order = TOOLS.value.order
        /\ builds' = builds
C21_StableListing == []C21_SameList /\ [][C21_Untouched]_vars

\* With several tools registered, a second list_tools call has returned
\* while the host still holds the result of the first.
C21_Witness ==
    /\ last.op = "list_tools" /\ last.returned /\ Len(declared) >= 2
    /\ cfgLog.listed.set /\ Cardinality(held) = 2
    /\ \A b \in held : heap[b[1]].bytes = cfgLog.listed.v

\* The configure calls that have returned 0, by their place in the history.
ReturnedZero == {i \in DOMAIN cfgLog.calls : cfgLog.calls[i].code = 0}

\* C22 -- a handler that reads the configuration with get_config before any
\* configure call has returned 0 panics, no error value comes back; one that
\* reads it with try_get_config gets None; once a configure call has returned
\* 0 both get the value that call stored.
C22_Read ==
    (last' # last /\ last'.op = "execute_tool" /\ last'.in[1] \in {"status", "probe"}) =>
        IF ReturnedZero = {}
        THEN IF last'.in[1] = "status"
             THEN /\ ~last'.returned /\ ~last'.written /\ last'.code = NoCode
                  /\ proc' \in PanicOutcomes
                  /\ last'.invoked[1].result = HPanic
             ELSE /\ last'.returned /\ last'.code = 0
                  /\ last'.invoked[1].result.cfg = None
                  /\ last'.body = "{\"status\":\"unconfigured\"}"
        ELSE \E i \in ReturnedZero :
                /\ last'.returned /\ last'.code = 0
                /\ last'.invoked[1].result.cfg = Some(ParsedPayload[cfgLog.calls[i].payload])
                /\ last'.body = "{\"status\":\"ok\"}"
C23_Init ==
    (last' # last /\ last'.op = "init") =>
        \E connects \in BOOLEAN :
            LET r == init(PLUGIN_CONFIG, DB_POOL, connects)
            IN  /\ DB_POOL' = r.pool
                /\ (last'.returned /\ last'.code = 0) <=> (r.kind = "Ok")
                /\ r.kind = "Ok" =>
                      /\ ~last'.written /\ last'.buf = NULL /\ last'.len = 0
                      /\ heap' = heap /\ held' = held
                /\ r.kind = "Err" =>
                      /\ last'.returned /\ last'.code # 0 /\ last'.written
                      /\ JsonIs(last'.body, Obj("error" :> Str(r.e)))
                      /\ <<last'.buf, last'.len>> \in held' \ held
                      /\ IsBlock(heap', last'.buf, last'.len)
C23_InitResult == [][C23_Init]_vars

\* initialize has succeeded once and a second call has failed with the
\* native function's message in a buffer the host now holds.
C23_Witness ==
    /\ last.op = "init" /\ last.returned /\ last.code = 1 /\ last.written
    /\ last.body = "{\"error\":\"DB already initialized\"}"
    /\ DB_POOL /\ <<last.buf, last.len>> \in held

\* C24 -- dispatch does not hold the arguments against the tool's schema:
\* for a registered tool and any well-formed argument JSON, also one that
\* lacks a required parameter, gives a parameter another type or is no
\* object, execute_tool invokes the tool's handler with the parsed value,
\* and the call ends as the handler's result says.
C24_NoSchemaCheck ==
    (/\ last.op = "execute_tool"
     /\ last.in[1] \in RegisteredNames
     /\ last.in[2] \in WellFormedArgs) =>
        LET tool == RegistryOf(declared)[last.in[1]]
            r == CallHandler(tool.handler, ArgValue[last.in[2]], PLUGIN_CONFIG)
        IN  /\ last.invoked = <<[tool |-> last.in[1], handler |-> tool.handler,
                                 args |-> ArgValue[last.in[2]], result |-> r]>>
            /\ CASE r.kind = "Ok" ->
                      last.returned /\ last.code = 0 /\ JsonIs(last.body, r.v)
                 [] r.kind = "Err" ->
                      /\ last.returned /\ last.code = 1
                      /\ JsonIs(last.body, Obj("error" :> Str(r.e)))
                 [] r.kind = "Panic" -> ~last.returned

\* The handler of the tool with a required integer parameter has run on
\* arguments that leave the parameter out.
C24_Witness ==
    /\ last.op = "execute_tool" /\ last.in = <<"get_product", "{}">>
    /\ ~Conforms(RegistryOf(declared)["get_product"], ArgValue["{}"])
    /\ Len(last.invoked) = 1 /\ last.returned

\* C25 -- get_config_schema can be called in every lifecycle state, whether
\* no configure call was made, one failed or one succeeded: it always
\* returns 0 with the same schema document, and the call changes neither the
\* configuration nor the registry.
C25_SameSchema ==
    last.op = "get_config_schema" =>
        /\ last.returned /\ last.code = 0 /\ last.written
        /\ last.body =
             "{\"required\":[\"database_url\",\"max_connections\"],\"title\":\"PluginConfig\",\"type\":\"object\"}"
        /\ JsonIs(last.body, ConfigSchema)
C25_Frame ==
    (last' # last /\ last'.op = "get_config_schema") =>
        /\ PLUGIN_CONFIG' = PLUGIN_CONFIG
        /\ TOOLS' = TOOLS /\ building' = building /\ builds' = builds
        /\ DB_POOL' = DB_POOL
C25_AnyState == []C25_SameSchema /\ [][C25_Frame]_vars

\* The schema has just been read with the plugin configured, and the host
\* holds two copies of the same document.
C25_Witness ==
    /\ last.op = "get_config_schema" /\ last.returned
    /\ Lifecycle # "Loaded"
    /\ Cardinality(held) = 2
    /\ \A b \in held : heap[b[1]].bytes = last.body

\* The JSON Schema type each builder method stands for.
MethodType ==
    ("param_string" :> "string") @@ ("param_i64" :> "integer")
        @@ ("param_f64" :> "number") @@ ("param_bool" :> "boolean")
        @@ ("param_object" :> "object") @@ ("param_array" :> "array")

\* C26 -- the six type tags map one-to-one onto string, integer, number,
\* boolean, object, array, and each param_* method, applied to a builder in
\* whatever state, appends a parameter whose tag maps to the method's own
\* type; the descriptor shows that string for the parameter.
C26_OneToOne ==
    /\ {to_json_type(p) : p \in ParamType} =
          {"string", "integer", "number", "boolean", "object", "array"}
    /\ \A p, q \in ParamType : to_json_type(p) = to_json_type(q) => p = q
    /\ \A method \in BuilderMethods :
          LET b == [name |-> declared[1].name,
                    description |-> declared[1].description,
                    params |-> declared[1].params]
              after == CallMethod(method, b, "query", "a parameter", TRUE).params
          IN  /\ Len(after) = Len(b.params) + 1
              /\ SubSeq(after, 1, Len(b.params)) = b.params
              /\ after[Len(after)].param_type \in ParamType
              /\ to_json_type(after[Len(after)].param_type) = MethodType[method]
    /\ (last.op = "list_tools" /\ last.returned /\ DistinctNames(declared[1].params)) =>
          LET props == from_slice(last.body).v.items[1]
                          .members["inputSchema"].members["properties"].members
          IN  \A i \in DOMAIN declared[1].params :
                 props[declared[1].params[i].name].members["type"] =
                    Str(TypeName[declared[1].params[i].param_type])

\* The descriptor of a tool built with param_i64 and param_f64 shows integer
\* for the one and number for the other.
C26_Witness ==
    /\ last.op = "list_tools" /\ last.returned
    /\ declared[1].params =
          BuildParams(builder("search", "Search the catalog"),
                      <<<<"Integer", "limit", TRUE>>, <<"Number", "query", FALSE>>>>).params
    /\ LET props == from_slice(last.body).v.items[1]
                       .members["inputSchema"].members["properties"].members
       IN  /\ props["limit"].members["type"] = Str("integer")
           /\ props["query"].members["type"] = Str("number")

\* C27 -- under fair scheduling no call stays inside the plugin for ever: a
\* thread that is in a list_tools, execute_tool or configure call, also one
\* that waits in get_tools while another thread builds the registry or that
\* has parsed its payload while another thread stores the configuration, gets
\* back to the host; a free call returns in the step it is made.
C27_Returns ==
    /\ \A t \in Threads :
          (pc[t] \in {"get_tools", "build", "configure_set"})
              ~> (pc[t] = "idle" /\ proc = "running")
    /\ [](last.op = "free_string" => last.returned)

\* One thread waits in get_tools while another is in the middle of the
\* build, and the plugin is not yet configured.
C27_Witness ==
    \E t, u \in Threads :
        /\ pc[t] = "get_tools" /\ pc[u] = "build"
        /\ building[u].next = 2 /\ TOOLS.state = "running"

\* C28 -- a configure call whose payload does not parse returns 1 and leaves
\* the configuration cell as it was; while the cell is unset such a call
\* does not use up the one write, so the first later call with a payload
\* that parses returns 0 and stores that payload.
C28_FailedCall ==
    /\ Len(cfgLog'.calls) = Len(cfgLog.calls) + 1
    /\ ~Parses(cfgLog'.calls[Len(cfgLog'.calls)].payload)
C28_Keep ==
    C28_FailedCall =>
        /\ cfgLog'.calls[Len(cfgLog'.calls)].code = 1
        /\ PLUGIN_CONFIG' = PLUGIN_CONFIG
C28_Later ==
    LET c == cfgLog.calls
    IN  \A i, j \in DOMAIN c :
          (/\ i < j /\ Parses(c[j].payload)
           /\ \A k \in 1..(j - 1) : ~Parses(c[k].payload)) =>
              /\ c[i].code = 1
              /\ c[j].code = 0
              /\ PLUGIN_CONFIG = Some(ParsedPayload[c[j].payload])
C28_FailureKeepsState == []C28_Later /\ [][C28_Keep]_vars

\* A configure call has returned 1 on a payload of the wrong shape with the
\* cell unset, and the next call has returned 0 and stored its payload.
C28_Witness ==
    LET c == cfgLog.calls
    IN  /\ Len(c) = 2
        /\ c[1].payload = PayloadShape /\ c[1].code = 1
        /\ c[2].payload = PayloadB /\ c[2].code = 0
        /\ PLUGIN_CONFIG = Some(ParsedPayload[PayloadB])

\* The message of an error body, "" when the text is no such body.
ErrorOf(body) ==
    LET j == from_slice(body)
    IN  IF j.ok /\ j.v.t = "obj" /\ DOMAIN j.v.members = {"error"}
           /\ j.v.members["error"].t = "str"
        THEN j.v.members["error"].s
        ELSE ""

\* C29 -- execute_tool checks the name's encoding, then the argument JSON,
\* then the registry, and reports the first failure only: an undecodable
\* name gives "Invalid tool name encoding" whatever the arguments are,
\* malformed arguments under a decodable name give "Invalid JSON arguments:
\* ..." whether or not the name is registered, and "Unknown tool: <name>"
\* is reported only when name and arguments are both good.
C29_FirstFailure ==
    (last.op = "execute_tool" /\ last.in[1] \in HostNames /\ last.in[2] \in HostArgs) =>
        LET msg == ErrorOf(last.body)
        IN  IF last.in[1] = BadName
            THEN last.code = 1 /\ msg = "Invalid tool name encoding"
            ELSE IF last.in[2] \in MalformedArgs
            THEN /\ last.code = 1
                 /\ HasPrefix(msg, "Invalid JSON arguments: ")
                 /\ ~HasPrefix(msg, "Unknown tool: ")
                 /\ last.invoked = <<>>
            ELSE IF last.in[1] \in UnknownNames
            THEN last.code = 1 /\ msg = "Unknown tool: " \o last.in[1]
            ELSE Len(last.invoked) = 1

\* With the registry built, a call with an unregistered name and malformed
\* arguments has been answered with the message about the arguments.
C29_Witness ==
    /\ last.op = "execute_tool" /\ last.in = <<"nope", "{">>
    /\ TOOLS.state = "done" /\ last.returned
    /\ HasPrefix(ErrorOf(last.body), "Invalid JSON arguments: ")

\* C30 -- when the declared list names a tool twice, the registry built
\* from it has one entry under that name, the tool declared last: the
\* registry's names are the declared names, each once; list_tools returns
\* one descriptor per name, that of the last declaration; execute_tool runs
\* the handler of the last declaration.
C30_LastOf(name) ==
    declared[CHOOSE i \in DOMAIN declared :
                /\ declared[i].name = name
                /\ \A j \in DOMAIN declared : declared[j].name = name => j <= i]
C30_LastDeclaredWins ==
    LET names == {declared[i].name : i \in DOMAIN declared}
    IN  /\ TOOLS.state = "done" =>
              /\ DOMAIN TOOLS.value.tools = names
              /\ \A n \in names : TOOLS.value.tools[n] = C30_LastOf(n)
              /\ Len(TOOLS.value.order) = Cardinality(names)
              /\ {TOOLS.value.order[k] : k \in DOMAIN TOOLS.value.order} = names
        /\ (last.op = "list_tools" /\ last.returned) =>
              LET items == from_slice(last.body).v.items
              IN  /\ Len(items) = Cardinality(names)
                  /\ \A n \in names :
                        /\ Cardinality({k \in DOMAIN items :
                                          items[k].members["name"] = Str(n)}) = 1
                        /\ \E k \in DOMAIN items : items[k] = to_json_schema(C30_LastOf(n))
        /\ (last.op = "execute_tool" /\ last.in[1] = "hello" /\ last.returned) =>
              /\ Len(last.invoked) = 1
              /\ last.invoked[1].handler = C30_LastOf("hello").handler
              /\ last.body = IF C30_LastOf("hello") = HelloAgain
                             THEN "{\"message\":\"Hello again!\"}"
                             ELSE "{\"message\":\"Hello, World!\"}"

\* Of three declared tools two are named hello; the registry has two
\* entries and a call of hello has run the handler declared last.
C30_Witness ==
    /\ declared = <<HelloTool, StatusTool, HelloAgain>>
    /\ TOOLS.state = "done" /\ Cardinality(DOMAIN TOOLS.value.tools) = 2
    /\ last.op = "execute_tool" /\ last.in[1] = "hello" /\ last.returned
    /\ last.body = "{\"message\":\"Hello again!\"}"

\* C31 -- every buffer return_success or return_error hands out has an
\* address that is not null and a capacity above zero, however small the
\* result, so a free of a pair the host holds never takes the no-op branch:
\* it releases that block and nothing else.
C31_Pairs ==
    /\ \A b \in held : b[1] # NULL /\ b[1] # Dangling /\ b[2] > 0 /\ IsBlock(heap, b[1], b[2])
    /\ (last.op \in {"execute_tool", "list_tools"} /\ last.returned) =>
          /\ last.written /\ last.buf # NULL /\ last.len > 0
          /\ Len(last.body) > 0
C31_FreeStep ==
    (last'.op = "free_string" /\ last'.in \in held) =>
        /\ last'.returned /\ proc' = "running"
        /\ ~heap'[last'.in[1]].live
        /\ Outstanding' = Outstanding \ {last'.in[1]}
        /\ held' = held \ {last'.in}
        /\ \A a \in DOMAIN heap : a # last'.in[1] => heap'[a] = heap[a]
C31_NeverEmpty == []C31_Pairs /\ [][C31_FreeStep]_vars

\* The host has freed a buffer of one byte, the text of the number 0, and
\* still holds another buffer.
C31_Witness ==
    /\ last.op = "free_string" /\ last.in[1] # NULL /\ last.in[2] = 1
    /\ last.returned /\ ~heap[last.in[1]].live
    /\ Cardinality(held) = 1
====
